---------------------------- MODULE Spec2Model ----------------------------
(***************************************************************************)
(* Pod-manifest validator.  The repository holds three variants of the     *)
(* same program:                                                           *)
(*   P_  src/main.go 1-481      package-level `errors`, entry validatePod  *)
(*   T_  src/main.go 483-1007   Validator, map lookup, validateTopLevel    *)
(*   D_  src/unnamed/part_000   Validator, encounter order,                *)
(*                              validateDocument                           *)
(* A yaml.Node is a record [Kind, Value, Line, Content]; a mapping's       *)
(* Content alternates key and value nodes, as in gopkg.in/yaml.v3.         *)
(* Text is a TLA+ string; SubSeq(s, i, i) is its i-th character.           *)
(***************************************************************************)
EXTENDS Integers, Sequences, FiniteSets, TLC

VARIABLES impl,     \* which variant of the program runs
          root,     \* the yaml.Node that yaml.Unmarshal filled in
          pc,       \* position of the run
          idx,      \* index of the next top-level field to handle
          errors,   \* P_: package-level []ValidationError; T_/D_: v.errors
          stderr,   \* lines written to standard error
          exit,     \* process outcome: "none", 0, 1, or 2 (run-time panic)
          runs      \* history: one [root, errs] per validation run that returned

vars == <<impl, root, pc, idx, errors, stderr, exit, runs>>

----------------------------------------------------------------------------
(* Bounds of the explored inputs *)

MaxContainers == 2
MaxRuns == 2

----------------------------------------------------------------------------
(* yaml.Node *)

DocumentNode == "DocumentNode"
SequenceNode == "SequenceNode"
MappingNode == "MappingNode"
ScalarNode == "ScalarNode"

FileName == "pod.yaml"

Node(kind, value, line, content) ==
    [Kind |-> kind, Value |-> value, Line |-> line, Content |-> content]

\* Unpositioned nodes; yamlUnmarshal gives them their lines.
Sc(v) == Node(ScalarNode, v, 0, <<>>)
Mp(content) == Node(MappingNode, "", 0, content)
Sq(content) == Node(SequenceNode, "", 0, content)

RECURSIVE Flatten(_)
Flatten(ss) == IF ss = <<>> THEN <<>> ELSE Head(ss) \o Flatten(Tail(ss))

(* Line numbers as the parser assigns them to a block-style document: a     *)
(* key and its scalar (or empty) value share a line, a nested collection    *)
(* starts on the following line, a sequence element starts on its dash's    *)
(* line, a mapping's line is that of its first key.  Lay returns the node   *)
(* with lines and the first unused line.                                    *)
RECURSIVE Lay(_, _)
RECURSIVE LayPairs(_, _, _)
RECURSIVE LayItems(_, _, _)
Lay(n, l) ==
    IF n.Kind = ScalarNode \/ n.Content = <<>>
    THEN [node |-> [n EXCEPT !.Line = l], next |-> l + 1]
    ELSE IF n.Kind = MappingNode
    THEN LET r == LayPairs(n.Content, 1, l)
         IN  [node |-> [n EXCEPT !.Line = l, !.Content = r.content], next |-> r.next]
    ELSE LET r == LayItems(n.Content, 1, l)
         IN  [node |-> [n EXCEPT !.Line = l, !.Content = r.content], next |-> r.next]
LayPairs(c, j, l) ==
    IF j > Len(c) THEN [content |-> <<>>, next |-> l]
    ELSE LET k == [c[j] EXCEPT !.Line = l]
             inline == c[j + 1].Kind = ScalarNode \/ c[j + 1].Content = <<>>
             v == Lay(c[j + 1], IF inline THEN l ELSE l + 1)
             rest == LayPairs(c, j + 2, v.next)
         IN  [content |-> <<k, v.node>> \o rest.content, next |-> rest.next]
LayItems(c, j, l) ==
    IF j > Len(c) THEN [content |-> <<>>, next |-> l]
    ELSE LET v == Lay(c[j], l)
             rest == LayItems(c, j + 1, v.next)
         IN  [content |-> <<v.node>> \o rest.content, next |-> rest.next]

\* yaml.Unmarshal(content, &root) without error: a document node holding the
\* root, or the zero Node when the input holds no document.
EmptyRoot == Node("", "", 0, <<>>)
yamlUnmarshal(n) == Node(DocumentNode, "", 1, <<Lay(n, 1).node>>)

----------------------------------------------------------------------------
(* Text helpers and format validators *)

Char(s, i) == SubSeq(s, i, i)
Lower == {"a","b","c","d","e","f","g","h","i","j","k","l","m",
          "n","o","p","q","r","s","t","u","v","w","x","y","z"}
Upper == {"A","B","C","D","E","F","G","H","I","J","K","L","M",
          "N","O","P","Q","R","S","T","U","V","W","X","Y","Z"}
Digit == {"0","1","2","3","4","5","6","7","8","9"}
DigitVal(c) == CASE c = "0" -> 0 [] c = "1" -> 1 [] c = "2" -> 2 [] c = "3" -> 3
                 [] c = "4" -> 4 [] c = "5" -> 5 [] c = "6" -> 6 [] c = "7" -> 7
                 [] c = "8" -> 8 [] c = "9" -> 9

AllIn(s, class) == \A i \in 1..Len(s) : Char(s, i) \in class
HasPrefix(s, p) == Len(s) >= Len(p) /\ SubSeq(s, 1, Len(p)) = p
Contains(s, c) == \E i \in 1..Len(s) : Char(s, i) = c

\* regexp `^[a-z]+(_[a-z]+)*$`, run as its automaton: st = 0 a letter is
\* needed (start, or just after an underscore), st = 1 inside a word.
RECURSIVE snakeCaseRun(_, _, _)
snakeCaseRun(s, i, st) ==
    IF i > Len(s) THEN st = 1
    ELSE IF Char(s, i) \in Lower THEN snakeCaseRun(s, i + 1, 1)
    ELSE IF Char(s, i) = "_" /\ st = 1 THEN snakeCaseRun(s, i + 1, 0)
    ELSE FALSE
snakeCaseRegex(s) == snakeCaseRun(s, 1, 0)

\* P_ isValidSnakeCase: regexp `^[a-z0-9_]+$` and s != ""
isValidSnakeCase(s) == Len(s) >= 1 /\ AllIn(s, Lower \cup Digit \cup {"_"}) /\ s # ""

\* regexp `^\d+(Gi|Mi|Ki)$`
memoryRegex(s) ==
    /\ Len(s) >= 3
    /\ SubSeq(s, Len(s) - 1, Len(s)) \in {"Gi", "Mi", "Ki"}
    /\ AllIn(SubSeq(s, 1, Len(s) - 2), Digit)
isValidMemoryFormat(s) == memoryRegex(s)

\* regexp `^registry\.bigbrother\.io/[a-zA-Z0-9][a-zA-Z0-9_.-]+:[a-zA-Z0-9_.-]+$`
\* Neither character class holds ':', so the colon of a match is the first one.
RegistryPrefix == "registry.bigbrother.io/"
AlNum == Lower \cup Upper \cup Digit
RefChar == AlNum \cup {"_", ".", "-"}
imageRegex(s) ==
    /\ HasPrefix(s, RegistryPrefix)
    /\ LET rest == SubSeq(s, Len(RegistryPrefix) + 1, Len(s))
       IN  /\ Contains(rest, ":")
           /\ LET c == CHOOSE i \in 1..Len(rest) :
                          Char(rest, i) = ":" /\ \A j \in 1..(i - 1) : Char(rest, j) # ":"
                  repo == SubSeq(rest, 1, c - 1)
                  tag == SubSeq(rest, c + 1, Len(rest))
              IN  /\ Len(repo) >= 2
                  /\ Char(repo, 1) \in AlNum
                  /\ AllIn(repo, RefChar)
                  /\ Len(tag) >= 1
                  /\ AllIn(tag, RefChar)

\* strconv.Atoi: an optional sign, then one or more decimal digits.  The
\* texts explored are far shorter than the 19 digits at which int overflows.
RECURSIVE digitsValue(_, _, _)
digitsValue(s, i, acc) ==
    IF i > Len(s) THEN acc ELSE digitsValue(s, i + 1, acc * 10 + DigitVal(Char(s, i)))
Atoi(s) ==
    LET signed == Len(s) >= 1 /\ Char(s, 1) \in {"+", "-"}
        ds == IF signed THEN SubSeq(s, 2, Len(s)) ELSE s
    IN  IF Len(ds) >= 1 /\ AllIn(ds, Digit)
        THEN [val |-> IF signed /\ Char(s, 1) = "-" THEN 0 - digitsValue(ds, 1, 0)
                      ELSE digitsValue(ds, 1, 0),
              err |-> FALSE]
        ELSE [val |-> 0, err |-> TRUE]

----------------------------------------------------------------------------
(* Shared by the variants *)

\* A mapping's Content as Go's map[string]*yaml.Node after the loop
\* `fields[key.Value] = value`: a later pair overwrites an earlier one.
lastIndex(content, k) ==
    CHOOSE j \in 1..(Len(content) \div 2) :
        /\ content[2 * j - 1].Value = k
        /\ \A m \in (j + 1)..(Len(content) \div 2) : content[2 * m - 1].Value # k
collectFields(content) ==
    [k \in {content[2 * j - 1].Value : j \in 1..(Len(content) \div 2)} |->
        content[2 * lastIndex(content, k)]]

\* Validator.Errorf: the diagnostic is rendered when it is recorded.
Errorf(line, msg) ==
    IF line > 0 THEN FileName \o ":" \o ToString(line) \o " " \o msg
    ELSE FileName \o " " \o msg

----------------------------------------------------------------------------
(* T_: the Validator of src/main.go 483-1007 (map lookup) *)

T_validateAPIVersion(node) ==
    IF node.Value # "v1"
    THEN <<Errorf(node.Line, "apiVersion has unsupported value '" \o node.Value \o "'")>>
    ELSE <<>>

T_validateKind(node) ==
    IF node.Value # "Pod"
    THEN <<Errorf(node.Line, "kind has unsupported value '" \o node.Value \o "'")>>
    ELSE <<>>

T_validateLabels(node) ==
    IF node.Kind # MappingNode THEN <<Errorf(node.Line, "labels must be mapping")>>
    ELSE Flatten([j \in 1..(Len(node.Content) \div 2) |->
            LET key == node.Content[2 * j - 1]
                value == node.Content[2 * j]
            IN  (IF key.Kind # ScalarNode
                 THEN <<Errorf(key.Line, "label key must be string")>> ELSE <<>>)
                \o (IF value.Kind # ScalarNode
                    THEN <<Errorf(value.Line, "label value must be string")>> ELSE <<>>)])

T_validateMetadata(node) ==
    IF node.Kind # MappingNode THEN <<Errorf(node.Line, "metadata must be mapping")>>
    ELSE LET fields == collectFields(node.Content)
             has(k) == k \in DOMAIN fields
         IN  (IF ~has("name") THEN <<Errorf(0, "metadata.name is required")>>
              ELSE IF fields["name"].Kind # ScalarNode
                   THEN <<Errorf(fields["name"].Line, "name must be string")>>
              ELSE IF fields["name"].Value = ""
                   THEN <<Errorf(fields["name"].Line, "name is required")>>
              ELSE <<>>)
             \o (IF has("namespace") /\ fields["namespace"].Kind # ScalarNode
                 THEN <<Errorf(fields["namespace"].Line, "namespace must be string")>>
                 ELSE <<>>)
             \o (IF has("labels") THEN T_validateLabels(fields["labels"]) ELSE <<>>)

T_validateOS(node) ==
    IF node.Kind # ScalarNode THEN <<Errorf(node.Line, "os must be string")>>
    ELSE IF node.Value # "linux" /\ node.Value # "windows"
    THEN <<Errorf(node.Line, "os has unsupported value '" \o node.Value \o "'")>>
    ELSE <<>>

\* validateContainerName also updates the names set: [errs, names]
T_validateContainerName(node, names) ==
    IF node.Kind # ScalarNode
    THEN [errs |-> <<Errorf(node.Line, "container name must be string")>>, names |-> names]
    ELSE IF node.Value = ""
    THEN [errs |-> <<Errorf(node.Line, "name is required")>>, names |-> names]
    ELSE IF ~snakeCaseRegex(node.Value)
    THEN [errs |-> <<Errorf(node.Line,
                        "container name has invalid format '" \o node.Value \o "'")>>,
          names |-> names]
    ELSE IF node.Value \in names
    THEN [errs |-> <<Errorf(node.Line,
                        "container name '" \o node.Value \o "' is not unique")>>,
          names |-> names]
    ELSE [errs |-> <<>>, names |-> names \cup {node.Value}]

T_validateImage(node) ==
    IF node.Kind # ScalarNode THEN <<Errorf(node.Line, "image must be string")>>
    ELSE IF ~imageRegex(node.Value)
    THEN <<Errorf(node.Line, "image has invalid format '" \o node.Value \o "'")>>
    ELSE <<>>

T_validateCPU(node, prefix) ==
    IF node.Kind # ScalarNode THEN <<Errorf(node.Line, prefix \o ".cpu must be integer")>>
    ELSE IF Atoi(node.Value).err THEN <<Errorf(node.Line, prefix \o ".cpu must be integer")>>
    ELSE <<>>

T_validateMemory(node, prefix) ==
    IF node.Kind # ScalarNode
    THEN <<Errorf(node.Line, prefix \o ".memory must be string")>>
    ELSE IF ~memoryRegex(node.Value)
    THEN <<Errorf(node.Line, prefix \o ".memory has invalid format '" \o node.Value \o "'")>>
    ELSE <<>>

T_validateResourceRequirements(node, prefix) ==
    IF node.Kind # MappingNode THEN <<Errorf(node.Line, prefix \o " must be mapping")>>
    ELSE Flatten([j \in 1..(Len(node.Content) \div 2) |->
            LET key == node.Content[2 * j - 1]
                value == node.Content[2 * j]
            IN  CASE key.Value = "cpu" -> T_validateCPU(value, prefix)
                  [] key.Value = "memory" -> T_validateMemory(value, prefix)
                  [] OTHER -> <<Errorf(key.Line, prefix \o "." \o key.Value
                                                 \o " has unsupported resource type")>>])

T_validateResources(node) ==
    IF node.Kind # MappingNode THEN <<Errorf(node.Line, "resources must be mapping")>>
    ELSE LET fields == collectFields(node.Content)
         IN  (IF "requests" \in DOMAIN fields
              THEN T_validateResourceRequirements(fields["requests"], "requests") ELSE <<>>)
             \o (IF "limits" \in DOMAIN fields
                 THEN T_validateResourceRequirements(fields["limits"], "limits") ELSE <<>>)

T_validateContainerPort(node) ==
    IF node.Kind # ScalarNode THEN <<Errorf(node.Line, "containerPort must be integer")>>
    ELSE LET a == Atoi(node.Value)
         IN  IF a.err THEN <<Errorf(node.Line, "containerPort must be integer")>>
             ELSE IF a.val <= 0 \/ a.val >= 65536
             THEN <<Errorf(node.Line, "containerPort value out of range")>>
             ELSE <<>>

T_validateProtocol(node) ==
    IF node.Kind # ScalarNode THEN <<Errorf(node.Line, "protocol must be string")>>
    ELSE IF node.Value # "TCP" /\ node.Value # "UDP"
    THEN <<Errorf(node.Line, "protocol has unsupported value '" \o node.Value \o "'")>>
    ELSE <<>>

\* the body of the loop over the elements of `ports`
T_validatePort(portNode) ==
    IF portNode.Kind # MappingNode THEN <<Errorf(portNode.Line, "port must be mapping")>>
    ELSE LET fields == collectFields(portNode.Content)
         IN  (IF "containerPort" \notin DOMAIN fields
              THEN <<Errorf(0, "containerPort is required")>>
              ELSE T_validateContainerPort(fields["containerPort"]))
             \o (IF "protocol" \in DOMAIN fields
                 THEN T_validateProtocol(fields["protocol"]) ELSE <<>>)

T_validatePorts(node) ==
    IF node.Kind # SequenceNode THEN <<Errorf(node.Line, "ports must be sequence")>>
    ELSE Flatten([j \in 1..Len(node.Content) |-> T_validatePort(node.Content[j])])

T_validateProbePort(node) ==
    IF node.Kind # ScalarNode THEN <<Errorf(node.Line, "port must be integer")>>
    ELSE LET a == Atoi(node.Value)
         IN  IF a.err THEN <<Errorf(node.Line, "port must be integer")>>
             ELSE IF a.val <= 0 \/ a.val >= 65536
             THEN <<Errorf(node.Line, "port value out of range")>>
             ELSE <<>>

T_validateHTTPGetAction(node) ==
    IF node.Kind # MappingNode THEN <<Errorf(node.Line, "httpGet must be mapping")>>
    ELSE LET fields == collectFields(node.Content)
         IN  (IF "path" \notin DOMAIN fields THEN <<Errorf(0, "path is required")>>
              ELSE IF fields["path"].Kind # ScalarNode
                   THEN <<Errorf(fields["path"].Line, "path must be string")>>
              ELSE IF Len(fields["path"].Value) = 0 \/ Char(fields["path"].Value, 1) # "/"
                   THEN <<Errorf(fields["path"].Line, "path must be absolute path")>>
              ELSE <<>>)
             \o (IF "port" \notin DOMAIN fields THEN <<Errorf(0, "port is required")>>
                 ELSE T_validateProbePort(fields["port"]))

T_validateProbe(node) ==
    IF node.Kind # MappingNode THEN <<Errorf(node.Line, "probe must be mapping")>>
    ELSE LET fields == collectFields(node.Content)
         IN  IF "httpGet" \notin DOMAIN fields THEN <<Errorf(0, "httpGet is required")>>
             ELSE T_validateHTTPGetAction(fields["httpGet"])

\* the body of the loop over the elements of `containers`: [errs, names]
T_validateContainer(containerNode, names) ==
    IF containerNode.Kind # MappingNode
    THEN [errs |-> <<Errorf(containerNode.Line, "container must be mapping")>>,
          names |-> names]
    ELSE LET fields == collectFields(containerNode.Content)
             has(k) == k \in DOMAIN fields
             nm == IF ~has("name")
                   THEN [errs |-> <<Errorf(0, "container name is required")>>,
                         names |-> names]
                   ELSE T_validateContainerName(fields["name"], names)
         IN  [errs |->
                nm.errs
                \o (IF ~has("image") THEN <<Errorf(0, "container image is required")>>
                    ELSE T_validateImage(fields["image"]))
                \o (IF ~has("resources")
                    THEN <<Errorf(0, "container resources is required")>>
                    ELSE T_validateResources(fields["resources"]))
                \o (IF has("ports") THEN T_validatePorts(fields["ports"]) ELSE <<>>)
                \o (IF has("readinessProbe")
                    THEN T_validateProbe(fields["readinessProbe"]) ELSE <<>>)
                \o (IF has("livenessProbe")
                    THEN T_validateProbe(fields["livenessProbe"]) ELSE <<>>),
              names |-> nm.names]

\* T_containersLoop with `return` where the code has `continue`: the loop
\* ends at the first element that is not a mapping
RECURSIVE T_containersLoop_return(_, _, _)
T_containersLoop_return(content, j, names) ==
    IF j > Len(content) THEN <<>>
    ELSE IF content[j].Kind # MappingNode
    THEN <<Errorf(content[j].Line, "container must be mapping")>>
    ELSE LET r == T_validateContainer(content[j], names)
         IN  r.errs \o T_containersLoop_return(content, j + 1, r.names)

RECURSIVE T_containersLoop(_, _, _)
T_containersLoop(content, j, names) ==
    IF j > Len(content) THEN <<>>
    ELSE LET r == T_validateContainer(content[j], names)
         IN  r.errs \o T_containersLoop(content, j + 1, r.names)

T_validateContainers(node) ==
    IF node.Kind # SequenceNode THEN <<Errorf(node.Line, "containers must be sequence")>>
    ELSE T_containersLoop(node.Content, 1, {})

T_validateSpec(node) ==
    IF node.Kind # MappingNode THEN <<Errorf(node.Line, "spec must be mapping")>>
    ELSE LET fields == collectFields(node.Content)
         IN  (IF "os" \in DOMAIN fields THEN T_validateOS(fields["os"]) ELSE <<>>)
             \o (IF "containers" \notin DOMAIN fields
                 THEN <<Errorf(0, "spec.containers is required")>>
                 ELSE T_validateContainers(fields["containers"]))

\* validateTopLevel after its root checks: the n-th of its four field checks
T_topLevelField(doc, n) ==
    LET fields == collectFields(doc.Content)
        has(k) == k \in DOMAIN fields
    IN  CASE n = 1 -> IF ~has("apiVersion") THEN <<Errorf(0, "apiVersion is required")>>
                      ELSE T_validateAPIVersion(fields["apiVersion"])
          [] n = 2 -> IF ~has("kind") THEN <<Errorf(0, "kind is required")>>
                      ELSE T_validateKind(fields["kind"])
          [] n = 3 -> IF ~has("metadata") THEN <<Errorf(0, "metadata is required")>>
                      ELSE T_validateMetadata(fields["metadata"])
          [] n = 4 -> IF ~has("spec") THEN <<Errorf(0, "spec is required")>>
                      ELSE T_validateSpec(fields["spec"])

T_validateTopLevel(r) ==
    IF Len(r.Content) = 0 THEN <<Errorf(0, "empty document")>>
    ELSE IF r.Content[1].Kind # MappingNode
    THEN <<Errorf(r.Content[1].Line, "root must be mapping")>>
    ELSE Flatten([n \in 1..4 |-> T_topLevelField(r.Content[1], n)])

----------------------------------------------------------------------------
(* D_: the Validator of src/unnamed/part_000 (encounter order) *)

\* `var xNode *yaml.Node` assigned in a loop over the pairs: nil when the key
\* never occurs, else the value of its last occurrence.
hasKey(content, k) == \E j \in 1..(Len(content) \div 2) : content[2 * j - 1].Value = k
lastValue(content, k) == content[2 * lastIndex(content, k)]

D_validateAPIVersion(node) ==
    IF node.Kind # ScalarNode THEN <<Errorf(node.Line, "apiVersion must be string")>>
    ELSE IF node.Value # "v1"
    THEN <<Errorf(node.Line, "apiVersion has unsupported value '" \o node.Value \o "'")>>
    ELSE <<>>

D_validateKind(node) ==
    IF node.Kind # ScalarNode THEN <<Errorf(node.Line, "kind must be string")>>
    ELSE IF node.Value # "Pod"
    THEN <<Errorf(node.Line, "kind has unsupported value '" \o node.Value \o "'")>>
    ELSE <<>>

D_validateName(node) ==
    IF node.Kind # ScalarNode THEN <<Errorf(node.Line, "name must be string")>>
    ELSE IF node.Value = "" THEN <<Errorf(node.Line, "name is required")>>
    ELSE <<>>

D_validateLabels(node) ==
    IF node.Kind # MappingNode THEN <<Errorf(node.Line, "labels must be mapping")>>
    ELSE Flatten([j \in 1..(Len(node.Content) \div 2) |->
            LET key == node.Content[2 * j - 1]
                value == node.Content[2 * j]
            IN  (IF key.Kind # ScalarNode
                 THEN <<Errorf(key.Line, "label key must be string")>> ELSE <<>>)
                \o (IF value.Kind # ScalarNode
                    THEN <<Errorf(value.Line, "label value must be string")>> ELSE <<>>)])

D_validateMetadata(node) ==
    IF node.Kind # MappingNode THEN <<Errorf(node.Line, "metadata must be mapping")>>
    ELSE Flatten([j \in 1..(Len(node.Content) \div 2) |->
            LET key == node.Content[2 * j - 1]
                value == node.Content[2 * j]
            IN  CASE key.Value = "namespace" ->
                       IF value.Kind # ScalarNode
                       THEN <<Errorf(value.Line, "namespace must be string")>> ELSE <<>>
                  [] key.Value = "labels" -> D_validateLabels(value)
                  [] OTHER -> <<>>])
         \o (IF ~hasKey(node.Content, "name") THEN <<Errorf(0, "metadata.name is required")>>
             ELSE D_validateName(lastValue(node.Content, "name")))

D_validateOS(node) ==
    IF node.Kind # ScalarNode THEN <<Errorf(node.Line, "os must be string")>>
    ELSE IF node.Value # "linux" /\ node.Value # "windows"
    THEN <<Errorf(node.Line, "os has unsupported value '" \o node.Value \o "'")>>
    ELSE <<>>

\* validateContainerName with the uniqueness check and the insertion into
\* the set ahead of the format check (a faulty variant)
D_validateContainerName_early(node, names) ==
    IF node.Kind # ScalarNode
    THEN [errs |-> <<Errorf(node.Line, "container name must be string")>>, names |-> names]
    ELSE IF node.Value = ""
    THEN [errs |-> <<Errorf(node.Line, "name is required")>>, names |-> names]
    ELSE IF node.Value \in names
    THEN [errs |-> <<Errorf(node.Line,
                        "container name '" \o node.Value \o "' is not unique")>>,
          names |-> names]
    ELSE IF ~snakeCaseRegex(node.Value)
    THEN [errs |-> <<Errorf(node.Line,
                        "container name has invalid format '" \o node.Value \o "'")>>,
          names |-> names \cup {node.Value}]
    ELSE [errs |-> <<>>, names |-> names \cup {node.Value}]

D_validateContainerName(node, names) ==
    IF node.Kind # ScalarNode
    THEN [errs |-> <<Errorf(node.Line, "container name must be string")>>, names |-> names]
    ELSE IF node.Value = ""
    THEN [errs |-> <<Errorf(node.Line, "name is required")>>, names |-> names]
    ELSE IF ~snakeCaseRegex(node.Value)
    THEN [errs |-> <<Errorf(node.Line,
                        "container name has invalid format '" \o node.Value \o "'")>>,
          names |-> names]
    ELSE IF node.Value \in names
    THEN [errs |-> <<Errorf(node.Line,
                        "container name '" \o node.Value \o "' is not unique")>>,
          names |-> names]
    ELSE [errs |-> <<>>, names |-> names \cup {node.Value}]

D_validateImage(node) ==
    IF node.Kind # ScalarNode THEN <<Errorf(node.Line, "image must be string")>>
    ELSE IF ~imageRegex(node.Value)
    THEN <<Errorf(node.Line, "image has invalid format '" \o node.Value \o "'")>>
    ELSE <<>>

D_validateCPU(node) ==
    IF node.Kind # ScalarNode THEN <<Errorf(node.Line, "cpu must be integer")>>
    ELSE IF Atoi(node.Value).err THEN <<Errorf(node.Line, "cpu must be int")>>
    ELSE <<>>

D_validateMemory(node, prefix) ==
    IF node.Kind # ScalarNode
    THEN <<Errorf(node.Line, prefix \o ".memory must be string")>>
    ELSE IF ~memoryRegex(node.Value)
    THEN <<Errorf(node.Line, prefix \o ".memory has invalid format '" \o node.Value \o "'")>>
    ELSE <<>>

D_validateResourceRequirements(node, prefix) ==
    IF node.Kind # MappingNode THEN <<Errorf(node.Line, prefix \o " must be mapping")>>
    ELSE Flatten([j \in 1..(Len(node.Content) \div 2) |->
            LET key == node.Content[2 * j - 1]
                value == node.Content[2 * j]
            IN  CASE key.Value = "cpu" -> D_validateCPU(value)
                  [] key.Value = "memory" -> D_validateMemory(value, prefix)
                  [] OTHER -> <<>>])

D_validateResources(node) ==
    IF node.Kind # MappingNode THEN <<Errorf(node.Line, "resources must be mapping")>>
    ELSE Flatten([j \in 1..(Len(node.Content) \div 2) |->
            LET key == node.Content[2 * j - 1]
                value == node.Content[2 * j]
            IN  CASE key.Value = "requests" ->
                       D_validateResourceRequirements(value, "requests")
                  [] key.Value = "limits" -> D_validateResourceRequirements(value, "limits")
                  [] OTHER -> <<>>])

\* the range check with both endpoints excluded (a faulty variant)
D_validateContainerPort_exclusive(node) ==
    IF node.Kind # ScalarNode THEN <<Errorf(node.Line, "containerPort must be integer")>>
    ELSE LET a == Atoi(node.Value)
         IN  IF a.err THEN <<Errorf(node.Line, "containerPort must be integer")>>
             ELSE IF a.val <= 1 \/ a.val >= 65535
             THEN <<Errorf(node.Line, "containerPort value out of range")>>
             ELSE <<>>

D_validateContainerPort(node) ==
    IF node.Kind # ScalarNode THEN <<Errorf(node.Line, "containerPort must be integer")>>
    ELSE LET a == Atoi(node.Value)
         IN  IF a.err THEN <<Errorf(node.Line, "containerPort must be integer")>>
             ELSE IF a.val <= 0 \/ a.val >= 65536
             THEN <<Errorf(node.Line, "containerPort value out of range")>>
             ELSE <<>>

D_validateProtocol(node) ==
    IF node.Kind # ScalarNode THEN <<Errorf(node.Line, "protocol must be string")>>
    ELSE IF node.Value # "TCP" /\ node.Value # "UDP"
    THEN <<Errorf(node.Line, "protocol has unsupported value '" \o node.Value \o "'")>>
    ELSE <<>>

\* the body of the loop over the elements of `ports`
D_validatePort(portNode) ==
    IF portNode.Kind # MappingNode THEN <<Errorf(portNode.Line, "port must be mapping")>>
    ELSE Flatten([j \in 1..(Len(portNode.Content) \div 2) |->
            IF portNode.Content[2 * j - 1].Value = "protocol"
            THEN D_validateProtocol(portNode.Content[2 * j]) ELSE <<>>])
         \o (IF ~hasKey(portNode.Content, "containerPort")
             THEN <<Errorf(0, "containerPort is required")>>
             ELSE D_validateContainerPort(lastValue(portNode.Content, "containerPort")))

D_validatePorts(node) ==
    IF node.Kind # SequenceNode THEN <<Errorf(node.Line, "ports must be sequence")>>
    ELSE Flatten([j \in 1..Len(node.Content) |-> D_validatePort(node.Content[j])])

D_validatePath(node) ==
    IF node.Kind # ScalarNode THEN <<Errorf(node.Line, "path must be string")>>
    ELSE IF Len(node.Value) = 0 \/ Char(node.Value, 1) # "/"
    THEN <<Errorf(node.Line, "path must be absolute path")>>
    ELSE <<>>

D_validateProbePort(node) ==
    IF node.Kind # ScalarNode THEN <<Errorf(node.Line, "port must be integer")>>
    ELSE LET a == Atoi(node.Value)
         IN  IF a.err THEN <<Errorf(node.Line, "port must be integer")>>
             ELSE IF a.val <= 0 \/ a.val >= 65536
             THEN <<Errorf(node.Line, "port value out of range")>>
             ELSE <<>>

D_validateHTTPGetAction(node) ==
    IF node.Kind # MappingNode THEN <<Errorf(node.Line, "httpGet must be mapping")>>
    ELSE (IF ~hasKey(node.Content, "path") THEN <<Errorf(0, "path is required")>>
          ELSE D_validatePath(lastValue(node.Content, "path")))
         \o (IF ~hasKey(node.Content, "port") THEN <<Errorf(0, "port is required")>>
             ELSE D_validateProbePort(lastValue(node.Content, "port")))

D_validateProbe(node) ==
    IF node.Kind # MappingNode THEN <<Errorf(node.Line, "probe must be mapping")>>
    ELSE IF ~hasKey(node.Content, "httpGet") THEN <<Errorf(0, "httpGet is required")>>
    ELSE D_validateHTTPGetAction(lastValue(node.Content, "httpGet"))

\* [errs, names]
D_validateContainer(node, names) ==
    LET inline == Flatten([j \in 1..(Len(node.Content) \div 2) |->
                    LET key == node.Content[2 * j - 1]
                        value == node.Content[2 * j]
                    IN  CASE key.Value = "ports" -> D_validatePorts(value)
                          [] key.Value = "readinessProbe" -> D_validateProbe(value)
                          [] key.Value = "livenessProbe" -> D_validateProbe(value)
                          [] OTHER -> <<>>])
        nm == IF ~hasKey(node.Content, "name")
              THEN [errs |-> <<Errorf(0, "container name is required")>>, names |-> names]
              ELSE D_validateContainerName(lastValue(node.Content, "name"), names)
    IN  [errs |->
            inline
            \o nm.errs
            \o (IF ~hasKey(node.Content, "image")
                THEN <<Errorf(0, "container image is required")>>
                ELSE D_validateImage(lastValue(node.Content, "image")))
            \o (IF ~hasKey(node.Content, "resources")
                THEN <<Errorf(0, "container resources is required")>>
                ELSE D_validateResources(lastValue(node.Content, "resources"))),
         names |-> nm.names]

RECURSIVE D_containersLoop(_, _, _)
D_containersLoop(content, j, names) ==
    IF j > Len(content) THEN <<>>
    ELSE IF content[j].Kind # MappingNode
    THEN <<Errorf(content[j].Line, "container must be mapping")>>
         \o D_containersLoop(content, j + 1, names)
    ELSE LET r == D_validateContainer(content[j], names)
         IN  r.errs \o D_containersLoop(content, j + 1, r.names)

D_validateContainers(node) ==
    IF node.Kind # SequenceNode THEN <<Errorf(node.Line, "containers must be sequence")>>
    ELSE D_containersLoop(node.Content, 1, {})

D_validateSpec(node) ==
    IF node.Kind # MappingNode THEN <<Errorf(node.Line, "spec must be mapping")>>
    ELSE Flatten([j \in 1..(Len(node.Content) \div 2) |->
            LET key == node.Content[2 * j - 1]
                value == node.Content[2 * j]
            IN  CASE key.Value = "os" -> D_validateOS(value)
                  [] key.Value = "containers" -> D_validateContainers(value)
                  [] OTHER -> <<>>])

\* validateDocument: the j-th iteration of its loop over the root's pairs
D_documentField(node, j) ==
    LET key == node.Content[2 * j - 1]
        value == node.Content[2 * j]
    IN  CASE key.Value = "apiVersion" -> D_validateAPIVersion(value)
          [] key.Value = "kind" -> D_validateKind(value)
          [] key.Value = "metadata" -> D_validateMetadata(value)
          [] key.Value = "spec" -> D_validateSpec(value)
          [] OTHER -> <<>>

D_validateDocument(node) ==
    IF node.Kind # MappingNode THEN <<Errorf(node.Line, "root must be mapping")>>
    ELSE Flatten([j \in 1..(Len(node.Content) \div 2) |-> D_documentField(node, j)])

----------------------------------------------------------------------------
(* P_: the program of src/main.go 1-481 (package-level errors) *)

ValidationError(line, msg) == [File |-> FileName, Line |-> line, Message |-> msg]

\* ValidationError.String
String(e) ==
    IF e.Line > 0 THEN e.File \o ":" \o ToString(e.Line) \o " " \o e.Message
    ELSE e.File \o " " \o e.Message

parseMapping(node) ==
    IF node.Kind # MappingNode THEN << >> ELSE collectFields(node.Content)
hasField(m, key) == key \in DOMAIN m
getStringValue(m, key) == IF key \in DOMAIN m THEN m[key].Value ELSE ""
getIntValue(m, key) == IF key \in DOMAIN m THEN Atoi(m[key].Value).val ELSE 0
getFieldLine(m, key) == IF key \in DOMAIN m THEN m[key].Line ELSE 0

P_validateMetadata(node) ==
    IF node.Kind # MappingNode THEN <<>>
    ELSE LET metadata == parseMapping(node)
         IN  IF ~hasField(metadata, "name")
             THEN <<ValidationError(0, "metadata.name is required")>>
             ELSE IF getStringValue(metadata, "name") = ""
             THEN <<ValidationError(getFieldLine(metadata, "name"),
                                    "metadata.name is required")>>
             ELSE <<>>

P_validateOS(node) ==
    IF node.Kind # MappingNode THEN <<>>
    ELSE LET osMap == parseMapping(node)
             osName == getStringValue(osMap, "name")
         IN  IF ~hasField(osMap, "name")
             THEN <<ValidationError(node.Line, "os.name is required")>>
             ELSE IF osName # "linux" /\ osName # "windows"
             THEN <<ValidationError(getFieldLine(osMap, "name"),
                        "os.name has unsupported value '" \o osName \o "'")>>
             ELSE <<>>

P_validateImage(image, line) ==
    IF ~HasPrefix(image, RegistryPrefix)
    THEN <<ValidationError(line, "containers.image has invalid format '" \o image \o "'")>>
    ELSE IF ~Contains(SubSeq(image, Len(RegistryPrefix) + 1, Len(image)), ":")
    THEN <<ValidationError(line, "containers.image has invalid format '" \o image \o "'")>>
    ELSE <<>>

\* the body of the loop over the elements of `ports`
P_validatePort(portNode) ==
    IF portNode.Kind # MappingNode THEN <<>>
    ELSE LET port == parseMapping(portNode)
             portValue == getIntValue(port, "containerPort")
             protocol == getStringValue(port, "protocol")
         IN  (IF ~hasField(port, "containerPort")
              THEN <<ValidationError(portNode.Line,
                         "containers.ports.containerPort is required")>>
              ELSE IF portValue <= 0 \/ portValue > 65535
              THEN <<ValidationError(getFieldLine(port, "containerPort"),
                         "containers.ports.containerPort value out of range")>>
              ELSE <<>>)
             \o (IF hasField(port, "protocol") /\ protocol # "TCP" /\ protocol # "UDP"
                 THEN <<ValidationError(getFieldLine(port, "protocol"),
                            "containers.ports.protocol has unsupported value '"
                                \o protocol \o "'")>>
                 ELSE <<>>)

P_validatePorts(node) ==
    IF node.Kind # SequenceNode THEN <<>>
    ELSE Flatten([j \in 1..Len(node.Content) |-> P_validatePort(node.Content[j])])

P_validateHTTPGetAction(node, probeName) ==
    IF node.Kind # MappingNode THEN <<>>
    ELSE LET action == parseMapping(node)
             path == getStringValue(action, "path")
             portValue == getIntValue(action, "port")
         IN  (IF ~hasField(action, "path")
              THEN <<ValidationError(node.Line,
                         "containers." \o probeName \o ".httpGet.path is required")>>
              ELSE IF ~HasPrefix(path, "/")
              THEN <<ValidationError(getFieldLine(action, "path"),
                         "containers." \o probeName \o ".httpGet.path has invalid format '"
                             \o path \o "'")>>
              ELSE <<>>)
             \o (IF ~hasField(action, "port")
                 THEN <<ValidationError(node.Line,
                            "containers." \o probeName \o ".httpGet.port is required")>>
                 ELSE IF portValue <= 0 \/ portValue > 65535
                 THEN <<ValidationError(getFieldLine(action, "port"),
                            "containers." \o probeName \o ".httpGet.port value out of range")>>
                 ELSE <<>>)

P_validateProbe(node, probeName) ==
    IF node.Kind # MappingNode THEN <<>>
    ELSE LET probe == parseMapping(node)
         IN  IF ~hasField(probe, "httpGet")
             THEN <<ValidationError(node.Line,
                        "containers." \o probeName \o ".httpGet is required")>>
             ELSE P_validateHTTPGetAction(probe["httpGet"], probeName)

P_validateResourceSpec(node, specName) ==
    IF node.Kind # MappingNode THEN <<>>
    ELSE LET spec == parseMapping(node)
             memory == getStringValue(spec, "memory")
         IN  (IF hasField(spec, "cpu") /\ getIntValue(spec, "cpu") <= 0
              THEN <<ValidationError(getFieldLine(spec, "cpu"),
                         "containers.resources." \o specName \o ".cpu value out of range")>>
              ELSE <<>>)
             \o (IF hasField(spec, "memory") /\ ~isValidMemoryFormat(memory)
                 THEN <<ValidationError(getFieldLine(spec, "memory"),
                            "containers.resources." \o specName
                                \o ".memory has invalid format '" \o memory \o "'")>>
                 ELSE <<>>)

P_validateResources(node) ==
    IF node.Kind # MappingNode THEN <<>>
    ELSE LET resources == parseMapping(node)
         IN  (IF hasField(resources, "requests")
              THEN P_validateResourceSpec(resources["requests"], "requests") ELSE <<>>)
             \o (IF hasField(resources, "limits")
                 THEN P_validateResourceSpec(resources["limits"], "limits") ELSE <<>>)

\* the body of the loop over the elements of `containers`: [errs, names]
P_validateContainer(containerNode, names) ==
    IF containerNode.Kind # MappingNode THEN [errs |-> <<>>, names |-> names]
    ELSE LET container == parseMapping(containerNode)
             name == getStringValue(container, "name")
             nameLine == getFieldLine(container, "name")
         IN  [errs |->
                (IF ~hasField(container, "name")
                 THEN <<ValidationError(containerNode.Line, "containers.name is required")>>
                 ELSE (IF ~isValidSnakeCase(name)
                       THEN <<ValidationError(nameLine,
                                  "containers.name has invalid format '" \o name \o "'")>>
                       ELSE <<>>)
                      \o (IF name \in names
                          THEN <<ValidationError(nameLine,
                                     "containers.name must be unique, '" \o name
                                         \o "' is duplicated")>>
                          ELSE <<>>))
                \o (IF ~hasField(container, "image")
                    THEN <<ValidationError(containerNode.Line,
                               "containers.image is required")>>
                    ELSE P_validateImage(getStringValue(container, "image"),
                                         getFieldLine(container, "image")))
                \o (IF hasField(container, "ports")
                    THEN P_validatePorts(container["ports"]) ELSE <<>>)
                \o (IF hasField(container, "readinessProbe")
                    THEN P_validateProbe(container["readinessProbe"], "readinessProbe")
                    ELSE <<>>)
                \o (IF hasField(container, "livenessProbe")
                    THEN P_validateProbe(container["livenessProbe"], "livenessProbe")
                    ELSE <<>>)
                \o (IF ~hasField(container, "resources")
                    THEN <<ValidationError(containerNode.Line,
                               "containers.resources is required")>>
                    ELSE P_validateResources(container["resources"])),
              names |-> IF hasField(container, "name") THEN names \cup {name} ELSE names]

RECURSIVE P_containersLoop(_, _, _)
P_containersLoop(content, j, names) ==
    IF j > Len(content) THEN <<>>
    ELSE LET r == P_validateContainer(content[j], names)
         IN  r.errs \o P_containersLoop(content, j + 1, r.names)

P_validateContainers(node) ==
    IF node.Kind # SequenceNode
    THEN <<ValidationError(node.Line, "spec.containers must be a list")>>
    ELSE P_containersLoop(node.Content, 1, {})

P_validateSpec(node) ==
    IF node.Kind # MappingNode THEN <<>>
    ELSE LET spec == parseMapping(node)
         IN  (IF hasField(spec, "os") THEN P_validateOS(spec["os"]) ELSE <<>>)
             \o (IF ~hasField(spec, "containers")
                 THEN <<ValidationError(0, "spec.containers is required")>>
                 ELSE P_validateContainers(spec["containers"]))

\* validatePod after its root checks: the n-th of its four field checks
P_podField(doc, n) ==
    LET pod == parseMapping(doc)
        apiVersion == getStringValue(pod, "apiVersion")
        kind == getStringValue(pod, "kind")
    IN  CASE n = 1 -> IF ~hasField(pod, "apiVersion")
                      THEN <<ValidationError(0, "apiVersion is required")>>
                      ELSE IF apiVersion # "v1"
                      THEN <<ValidationError(getFieldLine(pod, "apiVersion"),
                                 "apiVersion has unsupported value '" \o apiVersion \o "'")>>
                      ELSE <<>>
          [] n = 2 -> IF ~hasField(pod, "kind")
                      THEN <<ValidationError(0, "kind is required")>>
                      ELSE IF kind # "Pod"
                      THEN <<ValidationError(getFieldLine(pod, "kind"),
                                 "kind has unsupported value '" \o kind \o "'")>>
                      ELSE <<>>
          [] n = 3 -> IF ~hasField(pod, "metadata")
                      THEN <<ValidationError(0, "metadata is required")>>
                      ELSE P_validateMetadata(pod["metadata"])
          [] n = 4 -> IF ~hasField(pod, "spec")
                      THEN <<ValidationError(0, "spec is required")>>
                      ELSE P_validateSpec(pod["spec"])

\* what one call of validatePod appends to the package-level errors
validatePod(r) ==
    IF r.Kind # DocumentNode \/ Len(r.Content) = 0 THEN <<>>
    ELSE IF r.Content[1].Kind # MappingNode THEN <<>>
    ELSE Flatten([n \in 1..4 |-> P_podField(r.Content[1], n)])

----------------------------------------------------------------------------
(* The explored manifests *)

KV(k, v) == <<Sc(k), v>>
Reverse(s) == [i \in 1..Len(s) |-> s[Len(s) + 1 - i]]
\* a mapping from a sequence of key/value pairs
MpOf(pairs) == Mp(Flatten(pairs))
\* all sequences over S of length 0..n
SeqsUpTo(S, n) == UNION {[1..m -> S] : m \in 0..n}

GoodImage == Sc("registry.bigbrother.io/app:v1")
ResSet(cpu, memory) == MpOf(<<KV("cpu", Sc(cpu)), KV("memory", Sc(memory))>>)
GoodResources == MpOf(<<KV("requests", ResSet("1", "512Mi")),
                        KV("limits", ResSet("2", "1Gi"))>>)
Port(n) == MpOf(<<KV("containerPort", Sc(n))>>)
HttpGet(path, port) == MpOf(<<KV("path", Sc(path)), KV("port", Sc(port))>>)
Probe(path, port) == MpOf(<<KV("httpGet", HttpGet(path, port))>>)
GoodPorts == Sq(<<MpOf(<<KV("containerPort", Sc("8080")), KV("protocol", Sc("TCP"))>>)>>)
GoodProbe == Probe("/health", "8080")

Absent == Node("absent", "", 0, <<>>)
\* a mapping of the given keys, a key left out when its value is Absent
Fields(keys, vals) ==
    MpOf([i \in 1..Len(keys) |-> IF vals[i] = Absent THEN <<>> ELSE KV(keys[i], vals[i])])

ContainerKeys == <<"name", "image", "resources", "ports", "readinessProbe", "livenessProbe">>
Container(name, image, resources, ports, readiness, liveness) ==
    Fields(ContainerKeys, <<name, image, resources, ports, readiness, liveness>>)
Named(name) == Container(name, GoodImage, GoodResources, Absent, Absent, Absent)

NameChoices == {Absent, Sc("web"), Sc("db"), Sc("web_app"), Sc("Web"), Sc("web1"),
                Sc("_web"), Sc(""), Sq(<<>>)}
ImageChoices == {Absent, Sc("registry.bigbrother.io/app"), Sc("docker.io/app:v1"),
                 Sc("registry.bigbrother.io/a:v1"), Mp(<<>>)}
ResourcesChoices ==
    {Absent, Sc("none"), Mp(<<>>),
     MpOf(<<KV("requests", Sc("1"))>>),
     MpOf(<<KV("requests", ResSet("0", "512Mi"))>>),
     MpOf(<<KV("requests", ResSet("-1", "512Mi"))>>),
     MpOf(<<KV("limits", ResSet("half", "512Mi"))>>),
     MpOf(<<KV("requests", ResSet("1", "512M"))>>),
     MpOf(<<KV("limits", ResSet("1", "Mi"))>>),
     MpOf(<<KV("requests", MpOf(<<KV("cpu", Sq(<<>>)), KV("memory", Mp(<<>>))>>))>>),
     MpOf(<<KV("requests", MpOf(<<KV("cpu", Sc("1")), KV("gpu", Sc("1"))>>))>>),
     Sq(<<MpOf(<<KV("requests", ResSet("x", "1M"))>>)>>),
     MpOf(<<KV("limits", Sq(<<ResSet("x", "1M")>>))>>)}
PortsChoices ==
    {Sc("8080"), Sq(<<Sc("8080")>>), Sq(<<Mp(<<>>)>>),
     Sq(<<Port("0")>>), Sq(<<Port("1")>>), Sq(<<Port("65535")>>),
     Sq(<<Port("65536")>>), Sq(<<Port("70000")>>), Sq(<<Port("http")>>),
     Sq(<<MpOf(<<KV("containerPort", Sc("8080")), KV("protocol", Sc("SCTP"))>>)>>),
     Sq(<<MpOf(<<KV("protocol", Sq(<<>>)), KV("containerPort", Mp(<<>>))>>)>>),
     Sq(<<Port("0"), Port("70000")>>), Sq(<<Sc("8080"), Port("0"), Port("80")>>),
     Port("0"), Sq(<<Sq(<<Port("0")>>)>>), Sq(<<Port("-1")>>), Sq(<<Port("+80")>>),
     Sq(<<MpOf(<<KV("protocol", Sc("SCTP")), KV("containerPort", Sc("65535"))>>)>>),
     Sq(<<MpOf(<<KV("containerPort", Sc("65536")), KV("protocol", Sc("UDP"))>>)>>)}
ProbeChoices ==
    {Sc("none"), Mp(<<>>), MpOf(<<KV("httpGet", Sc("none"))>>),
     MpOf(<<KV("httpGet", Mp(<<>>))>>), Probe("health", "8080"), Probe("/health", "0"),
     Probe("/health", "70000"), Probe("", "http"),
     MpOf(<<KV("httpGet", MpOf(<<KV("path", Sq(<<>>)), KV("port", Mp(<<>>))>>))>>),
     Sq(<<Probe("health", "0")>>), MpOf(<<KV("httpGet", Sq(<<HttpGet("health", "0")>>))>>),
     Probe("/health", "1"), Probe("/health", "65535"), Probe("/health", "65536"),
     Probe("/health", "-8080")}

\* one container, one field away from a valid one
SingleContainers ==
    {Container(Sc("web"), GoodImage, GoodResources, GoodPorts, GoodProbe, GoodProbe)}
    \cup {Container(n, GoodImage, GoodResources, Absent, Absent, Absent) : n \in NameChoices}
    \cup {Container(Sc("web"), i, GoodResources, Absent, Absent, Absent) : i \in ImageChoices}
    \cup {Container(Sc("web"), GoodImage, r, Absent, Absent, Absent) : r \in ResourcesChoices}
    \cup {Container(Sc("web"), GoodImage, GoodResources, p, Absent, Absent) : p \in PortsChoices}
    \cup {Container(Sc("web"), GoodImage, GoodResources, Absent, p, Absent) : p \in ProbeChoices}
    \cup {Container(Sc("web"), GoodImage, GoodResources, Absent, Absent, p) : p \in ProbeChoices}

\* one container with a fault in every field, its keys in several orders
KeyOrders == {<<1, 2, 3, 4, 5, 6>>, <<6, 5, 4, 3, 2, 1>>, <<4, 5, 6, 1, 2, 3>>,
              <<3, 2, 1, 6, 4, 5>>, <<5, 1, 4, 2, 6, 3>>, <<2, 6, 3, 5, 1, 4>>}
FaultyValues == {<<Sc("Web"), Sc("docker.io/app:v1"), MpOf(<<KV("requests", ResSet("x", "1M"))>>),
                   Sq(<<Port("0")>>), Probe("health", "8080"), Mp(<<>>)>>,
                 <<Absent, Absent, Absent,
                   Sq(<<Port("70000")>>), Mp(<<>>), Probe("/health", "0")>>,
                 <<Sc("web"), GoodImage, GoodResources,
                   Sq(<<Mp(<<>>)>>), Probe("/health", "0"), Probe("health", "8080")>>,
                 <<Sc("Web"), Sc("docker.io/app:v1"), MpOf(<<KV("limits", ResSet("x", "1M"))>>),
                   Sq(<<Port("0")>>), Probe("health", "8080"), Probe("/health", "0")>>}
OrderedContainers ==
    {Fields([i \in 1..6 |-> ContainerKeys[o[i]]], [i \in 1..6 |-> f[o[i]]]) :
        o \in KeyOrders, f \in FaultyValues}

\* the elements of the explored multi-container lists
ListContainers ==
    {Named(Sc("web")), Named(Sc("db")), Named(Sc("Web")), Named(Absent), Sc("web"),
     Container(Sc("web"), Sc("docker.io/app:v1"), GoodResources, Absent, Absent, Absent),
     Container(Sc("db"), GoodImage, GoodResources, Sq(<<Port("0")>>), Absent, Absent)}

\* lists in which one name occurs three times
RepeatedNames ==
    {[i \in 1..3 |-> Named(Sc(n[i]))] :
        n \in {<<"web", "web", "web">>, <<"web", "db", "web">>, <<"Web", "Web", "Web">>,
                <<"db", "web", "web">>}}

ContainerLists ==
    SeqsUpTo(ListContainers, MaxContainers)
    \cup RepeatedNames
    \cup {<<c>> : c \in SingleContainers \cup OrderedContainers}

GoodMetadata == MpOf(<<KV("name", Sc("pod"))>>)
SpecOf(containers) == MpOf(<<KV("containers", Sq(containers))>>)
GoodSpec == SpecOf(<<Named(Sc("web"))>>)
TopKeys == <<"apiVersion", "kind", "metadata", "spec">>
Pod(apiVersion, kind, metadata, spec) == Fields(TopKeys, <<apiVersion, kind, metadata, spec>>)

APIVersionChoices == {Absent, Sc("v1"), Sc("v2"), Mp(<<>>)}
KindChoices == {Absent, Sc("Pod"), Sc("Job"), Sq(<<>>)}
MetadataChoices ==
    {Absent, Sc("pod"), GoodMetadata, Mp(<<>>), MpOf(<<KV("name", Sc(""))>>),
     MpOf(<<KV("name", Sq(<<>>)), KV("namespace", Sc("prod"))>>),
     MpOf(<<KV("labels", MpOf(<<KV("app", Sq(<<>>))>>)), KV("namespace", Mp(<<>>)),
            KV("name", Sc("pod"))>>),
     MpOf(<<KV("name", Sc("pod")), KV("labels", Sc("app"))>>),
     Sq(<<MpOf(<<KV("name", Sc(""))>>)>>)}
SpecChoices ==
    {Absent, Sc("spec"), GoodSpec, Mp(<<>>),
     MpOf(<<KV("containers", Sc("web"))>>),
     MpOf(<<KV("containers", MpOf(<<KV("name", Sc("Web"))>>))>>),
     MpOf(<<KV("os", Sc("linux")), KV("containers", Sq(<<Named(Sc("web"))>>))>>),
     MpOf(<<KV("containers", Sq(<<Named(Sc("Web"))>>)), KV("os", Sc("macos"))>>),
     MpOf(<<KV("os", MpOf(<<KV("name", Sc("linux"))>>)),
            KV("containers", Sq(<<Named(Sc("web"))>>))>>),
     MpOf(<<KV("os", Mp(<<>>)), KV("extra", Sc("x")),
            KV("containers", Sq(<<Named(Sc("web"))>>))>>)}

TopLevelPods ==
    {Pod(a, k, m, s) : a \in APIVersionChoices, k \in KindChoices,
                       m \in MetadataChoices, s \in SpecChoices}
ReversedPods ==
    {Fields(Reverse(TopKeys), <<s, m, k, a>>) :
        a \in {Absent, Sc("v2")}, k \in {Sc("Pod"), Sc("Job")},
        m \in {GoodMetadata, Sc("pod"), Mp(<<>>)}, s \in {Absent, GoodSpec, Sc("spec")}}
ContainerPods ==
    {Pod(a, Sc("Pod"), GoodMetadata, SpecOf(cs)) :
        a \in {Sc("v1"), Sc("v2")}, cs \in ContainerLists}

\* a container with a key outside the recognized set in each of its mappings
ExtraContainer(port, cpu) ==
    MpOf(<<KV("command", Sq(<<Sc("run")>>)), KV("name", Sc("web")), KV("image", GoodImage),
           KV("resources", MpOf(<<KV("claims", Sc("x")),
                                  KV("requests", ResSet(cpu, "512Mi"))>>)),
           KV("ports", Sq(<<MpOf(<<KV("hostPort", Sc("0")),
                                   KV("containerPort", Sc(port))>>)>>)),
           KV("readinessProbe",
              MpOf(<<KV("period", Sc("x")),
                     KV("httpGet", MpOf(<<KV("scheme", Sc("HTTP")), KV("path", Sc("/health")),
                                          KV("port", Sc(port))>>))>>))>>)
\* manifests with keys outside the recognized set at every level
ExtraPods ==
    {MpOf(<<KV("apiVersion", Sc("v1")), KV("status", Mp(<<>>)), KV("kind", Sc(k)),
            KV("metadata", MpOf(<<KV("annotations", MpOf(<<KV("owner", Sc("x"))>>)),
                                  KV("name", Sc("pod"))>>)),
            KV("spec", MpOf(<<KV("nodeName", Sc("n")),
                              KV("containers", Sq(<<ExtraContainer(port, cpu)>>))>>))>>)
       : k \in {"Pod", "Job"}, port \in {"8080", "0"}, cpu \in {"1", "x"}}

\* containers in which keys repeat, the faulty value first or last
RepeatContainers ==
    {MpOf(<<KV("name", Sc("Web")), KV("name", Sc("web")),
            KV("image", Sc("docker.io/app:v1")), KV("image", GoodImage),
            KV("resources", Sc("none")), KV("resources", GoodResources)>>),
     MpOf(<<KV("name", Sc("web")), KV("name", Sc("Web")),
            KV("image", GoodImage), KV("image", Sc("docker.io/app:v1")),
            KV("resources", GoodResources), KV("resources", Sc("none"))>>),
     Fields(ContainerKeys \o <<"ports", "readinessProbe", "livenessProbe">>,
            <<Sc("web"), GoodImage, GoodResources, Sq(<<Port("0")>>), Mp(<<>>),
              Probe("health", "0"), GoodPorts, GoodProbe, GoodProbe>>),
     Fields(ContainerKeys \o <<"ports", "readinessProbe", "livenessProbe">>,
            <<Sc("web"), GoodImage, GoodResources, GoodPorts, GoodProbe, GoodProbe,
              Sq(<<Port("0")>>), Mp(<<>>), Probe("health", "0")>>),
     Container(Sc("web"), GoodImage,
               MpOf(<<KV("requests", ResSet("x", "1M")),
                      KV("requests", MpOf(<<KV("cpu", Sc("x")), KV("memory", Sc("1M")),
                                            KV("cpu", Sc("1")), KV("memory", Sc("1Mi"))>>))>>),
               Absent, Absent, Absent),
     Container(Sc("web"), GoodImage, GoodResources,
               Sq(<<MpOf(<<KV("protocol", Sc("SCTP")), KV("containerPort", Sc("0")),
                           KV("protocol", Sc("TCP")), KV("containerPort", Sc("80"))>>)>>),
               MpOf(<<KV("httpGet", HttpGet("health", "0")),
                      KV("httpGet", MpOf(<<KV("path", Sc("health")), KV("port", Sc("0")),
                                           KV("path", Sc("/health")), KV("port", Sc("80"))>>))>>),
               Absent)}
\* manifests in which a key repeats within one mapping
RepeatPods ==
    {Pod(Sc("v1"), Sc("Pod"), GoodMetadata, SpecOf(<<c>>)) : c \in RepeatContainers}
    \cup {MpOf(<<KV("apiVersion", Sc("v2")), KV("kind", Sc("Job")), KV("apiVersion", Sc("v1")),
                 KV("kind", Sc("Pod")), KV("metadata", m), KV("spec", GoodSpec)>>)
          : m \in {GoodMetadata,
                   MpOf(<<KV("labels", Sc("app")), KV("name", Sc("")),
                          KV("name", Sc("pod")), KV("labels", Mp(<<>>))>>)}}
    \cup {Pod(Sc("v1"), Sc("Pod"), GoodMetadata,
              MpOf(<<KV("os", Sc(o[1])), KV("containers", Sq(<<Named(Sc(n[1]))>>)),
                     KV("os", Sc(o[2])), KV("containers", Sq(<<Named(Sc(n[2]))>>))>>))
          : o \in {<<"macos", "linux">>, <<"linux", "macos">>},
            n \in {<<"Web", "web">>, <<"web", "Web">>}}

\* what yaml.Unmarshal can return without error
Inputs ==
    {EmptyRoot}
    \cup {yamlUnmarshal(n) : n \in {Sc("pod"), Sq(<<Sc("pod")>>)} \cup TopLevelPods
                                   \cup ReversedPods \cup ContainerPods \cup ExtraPods
                                   \cup RepeatPods}

\* the manifests validated more than once in one process
RunInputs ==
    {EmptyRoot}
    \cup {yamlUnmarshal(n) : n \in
            {Sc("pod"),
             Pod(Sc("v1"), Sc("Pod"), GoodMetadata, GoodSpec),
             Pod(Absent, Sc("Pod"), GoodMetadata, GoodSpec),
             Pod(Sc("v1"), Sc("Pod"), GoodMetadata, SpecOf(<<Named(Sc("web")), Named(Sc("web"))>>)),
             Pod(Sc("v2"), Sc("Job"), Mp(<<>>), SpecOf(<<Named(Sc("Web"))>>))}}

----------------------------------------------------------------------------
(* The runs *)

Impls == {"P", "T", "D"}

\* the diagnostics of the run as they are printed
Rendered(es) == IF impl = "P" THEN [i \in DOMAIN es |-> String(es[i])] ELSE es

Init ==
    /\ impl \in Impls
    /\ root \in Inputs
    /\ pc = "main"
    /\ idx = 0
    /\ errors = <<>>
    /\ stderr = <<>>
    /\ exit = "none"
    /\ runs = <<>>

\* the validation call returns to its caller
Return(es) == runs' = Append(runs, [root |-> root, errs |-> Rendered(es)])

\* validatePod up to its first field check (main.go 65-75)
P_Enter ==
    /\ impl = "P" /\ pc = "main"
    /\ IF root.Kind # DocumentNode \/ Len(root.Content) = 0
          \/ root.Content[1].Kind # MappingNode
       THEN pc' = "returned" /\ idx' = idx /\ Return(errors)
       ELSE pc' = "fields" /\ idx' = 1 /\ runs' = runs
    /\ UNCHANGED <<impl, root, errors, stderr, exit>>

\* one of validatePod's four field checks (main.go 77-108)
P_Field ==
    /\ impl = "P" /\ pc = "fields"
    /\ errors' = errors \o P_podField(root.Content[1], idx)
    /\ idx' = idx + 1
    /\ IF idx = 4 THEN pc' = "returned" /\ Return(errors') ELSE pc' = pc /\ runs' = runs
    /\ UNCHANGED <<impl, root, stderr, exit>>

\* main after validatePod: print the errors, exit (main.go 54-62)
P_Exit ==
    /\ impl = "P" /\ pc = "returned"
    /\ stderr' = stderr \o [i \in DOMAIN errors |-> String(errors[i])]
    /\ exit' = IF Len(errors) > 0 THEN 1 ELSE 0
    /\ pc' = "exited"
    /\ UNCHANGED <<impl, root, idx, errors, runs>>

\* NewValidator, Validate and validateTopLevel up to its first field check
\* (main.go 520-576)
T_Enter ==
    /\ impl = "T" /\ pc = "main"
    /\ IF Len(root.Content) = 0
       THEN errors' = <<Errorf(0, "empty document")>> /\ pc' = "emit" /\ idx' = idx
       ELSE IF root.Content[1].Kind # MappingNode
       THEN /\ errors' = <<Errorf(root.Content[1].Line, "root must be mapping")>>
            /\ pc' = "emit" /\ idx' = idx
       ELSE errors' = <<>> /\ pc' = "fields" /\ idx' = 1
    /\ UNCHANGED <<impl, root, stderr, exit, runs>>

\* one of validateTopLevel's four field checks (main.go 578-604)
T_Field ==
    /\ impl = "T" /\ pc = "fields"
    /\ errors' = errors \o T_topLevelField(root.Content[1], idx)
    /\ idx' = idx + 1
    /\ pc' = IF idx = 4 THEN "emit" ELSE pc
    /\ UNCHANGED <<impl, root, stderr, exit, runs>>

\* NewValidator, Validate and validateDocument up to its loop (part_000 37-84).
\* Validate records "empty document" and goes on to index root.Content[0]:
\* with no content the run ends in a run-time panic, exit status 2.
D_Enter ==
    /\ impl = "D" /\ pc = "main"
    /\ IF Len(root.Content) = 0
       THEN /\ errors' = <<Errorf(0, "empty document")>>
            /\ pc' = "exited" /\ exit' = 2 /\ idx' = idx
       ELSE IF root.Content[1].Kind # MappingNode
       THEN /\ errors' = <<Errorf(root.Content[1].Line, "root must be mapping")>>
            /\ pc' = "emit" /\ exit' = exit /\ idx' = idx
       ELSE /\ errors' = <<>> /\ exit' = exit /\ idx' = 1
            /\ pc' = IF Len(root.Content[1].Content) = 0 THEN "emit" ELSE "fields"
    /\ UNCHANGED <<impl, root, stderr, runs>>

\* the loop iteration, were Errorf to put new errors in front (a faulty variant)
D_Field_prepend ==
    /\ impl = "D" /\ pc = "fields"
    /\ errors' = D_documentField(root.Content[1], idx) \o errors
    /\ idx' = idx + 1
    /\ pc' = IF idx = Len(root.Content[1].Content) \div 2 THEN "emit" ELSE pc
    /\ UNCHANGED <<impl, root, stderr, exit, runs>>

\* one iteration of validateDocument's loop (part_000 85-99)
D_Field ==
    /\ impl = "D" /\ pc = "fields"
    /\ errors' = errors \o D_documentField(root.Content[1], idx)
    /\ idx' = idx + 1
    /\ pc' = IF idx = Len(root.Content[1].Content) \div 2 THEN "emit" ELSE pc
    /\ UNCHANGED <<impl, root, stderr, exit, runs>>

\* the end of Validator.Validate: print the errors, return (main.go 549-555,
\* part_000 70-76)
V_Emit ==
    /\ impl \in {"T", "D"} /\ pc = "emit"
    /\ stderr' = stderr \o errors
    /\ pc' = "returned"
    /\ Return(errors)
    /\ UNCHANGED <<impl, root, idx, errors, exit>>

\* main after validateYAML: exit status 1 on an error, else 0 (main.go 500-503,
\* part_000 18-21)
V_Exit ==
    /\ impl \in {"T", "D"} /\ pc = "returned"
    /\ exit' = IF Len(errors) > 0 THEN 1 ELSE 0
    /\ pc' = "exited"
    /\ UNCHANGED <<impl, root, idx, errors, stderr, runs>>

Next == P_Enter \/ P_Field \/ P_Exit \/ T_Enter \/ T_Field \/ D_Enter \/ D_Field
        \/ V_Emit \/ V_Exit

Spec == Init /\ [][Next]_vars

(* Several validation runs in one process: the validation entry point is    *)
(* called again after it returned, as a test or a multi-file caller would.  *)
InitRuns ==
    /\ impl \in Impls
    /\ root \in RunInputs
    /\ pc = "main"
    /\ idx = 0
    /\ errors = <<>>
    /\ stderr = <<>>
    /\ exit = "none"
    /\ runs = <<>>

Again ==
    /\ pc = "returned" /\ Len(runs) < MaxRuns
    /\ root' \in RunInputs
    /\ pc' = "main"
    /\ UNCHANGED <<impl, idx, errors, stderr, exit, runs>>

NextRuns == Next \/ Again

SpecRuns == InitRuns /\ [][NextRuns]_vars

----------------------------------------------------------------------------
(* Vocabulary of the properties *)

\* the diagnostics recorded so far, as they are printed
Diag == Rendered(errors)

\* the validation call has returned (or the process has ended)
Finished == pc \in {"returned", "exited"}
MappingRoot == Len(root.Content) > 0 /\ root.Content[1].Kind = MappingNode
Doc == root.Content[1]

Range(s) == {s[i] : i \in DOMAIN s}
Count(s, x) == Cardinality({i \in DOMAIN s : s[i] = x})
HasSuffix(s, t) == Len(s) >= Len(t) /\ SubSeq(s, Len(s) - Len(t) + 1, Len(s)) = t
\* a diagnostic that carries no line: `<file> <message>`
NoLine(msg) == FileName \o " " \o msg
AtLine(line, msg) == FileName \o ":" \o ToString(line) \o " " \o msg

----------------------------------------------------------------------------
(* C1: a manifest whose root is a mapping without the key apiVersion gets   *)
(* the diagnostic `<file> apiVersion is required` (no line), exactly once.  *)
C1_ApiVersionRequired ==
    (Finished /\ MappingRoot /\ ~hasKey(Doc.Content, "apiVersion"))
        => Count(Diag, NoLine("apiVersion is required")) = 1

\* the case of C1 has been run
C1_Case == pc = "exited" /\ MappingRoot /\ ~hasKey(Doc.Content, "apiVersion")

\* C1 holds of the two variants that look the required keys up
C1_LookupVariants == impl \in {"P", "T"} => C1_ApiVersionRequired

(* C2: without a mapping root (no document content, or a scalar or         *)
(* sequence root) the run records "root must be mapping" and nothing else,  *)
(* and ends normally, with a non-empty error list (exit status 1).          *)
C2_RootMustBeMapping ==
    (pc = "exited" /\ ~MappingRoot)
        => /\ exit = 1
           /\ Len(Diag) = 1
           /\ HasSuffix(Diag[1], " root must be mapping")

C2_Case == pc = "exited" /\ ~MappingRoot

\* what the variants do there: T_ and D_ report a scalar or sequence root
C2_NonMappingRootReported ==
    (pc = "exited" /\ impl \in {"T", "D"} /\ Len(root.Content) > 0 /\ ~MappingRoot)
        => exit = 1 /\ Diag = <<AtLine(Doc.Line, "root must be mapping")>>

----------------------------------------------------------------------------
(* Editing a positioned tree: the nodes that stay keep their lines *)

\* the complete run of the variant on another root
RunOf(r) ==
    CASE impl = "P" -> Rendered(validatePod(r))
      [] impl = "T" -> T_validateTopLevel(r)
      [] impl = "D" -> D_validateDocument(r.Content[1])

\* mapping m with the value of `key` replaced by v (the pair added if absent)
SetField(m, key, v) ==
    IF hasKey(m.Content, key)
    THEN [m EXCEPT !.Content[2 * lastIndex(m.Content, key)] = v]
    ELSE [m EXCEPT !.Content = @ \o KV(key, v)]
SetContent(n, content) == [n EXCEPT !.Content = content]

\* mapping m with every key of `keys` but `key` given its valid value
RECURSIVE Alone(_, _, _, _, _)
Alone(m, key, keys, goods, i) ==
    IF i > Len(keys) THEN m
    ELSE Alone(IF keys[i] = key THEN m ELSE SetField(m, keys[i], goods[i]),
               key, keys, goods, i + 1)

TopGoods == <<Sc("v1"), Sc("Pod"), GoodMetadata, GoodSpec>>
MetadataKeys == <<"name", "namespace", "labels">>
MetadataGoods == <<Sc("pod"), Sc("prod"), Mp(<<>>)>>
ContainerGoods == <<Sc("zz"), GoodImage, GoodResources, GoodPorts, GoodProbe, GoodProbe>>

IsMappingField(m, key) == hasKey(m.Content, key) /\ lastValue(m.Content, key).Kind = MappingNode
IsSequenceField(m, key) ==
    hasKey(m.Content, key) /\ lastValue(m.Content, key).Kind = SequenceNode

\* the run reaches the elements of spec.containers
HasContainers ==
    /\ MappingRoot
    /\ IsMappingField(Doc, "spec")
    /\ IsSequenceField(lastValue(Doc.Content, "spec"), "containers")
SpecNode == lastValue(Doc.Content, "spec")
ContainersNode == lastValue(SpecNode.Content, "containers")
ContainerAt(j) == ContainersNode.Content[j]

WithDoc(d) == SetContent(root, <<d>>)
\* the manifest with cs as the elements of spec.containers
WithContainers(cs) ==
    WithDoc(SetField(Doc, "spec", SetField(SpecNode, "containers", SetContent(ContainersNode, cs))))

(* The manifest with one thing kept and its siblings made valid or removed: *)
(* one top-level field, one metadata field, one container, one field of one *)
(* container, one port of one container.                                    *)
Isolations ==
    {WithDoc(Alone(Doc, k, TopKeys, TopGoods, 1)) : k \in Range(TopKeys)}
    \cup (IF IsMappingField(Doc, "metadata")
          THEN {WithDoc(SetField(Doc, "metadata",
                    Alone(lastValue(Doc.Content, "metadata"), k, MetadataKeys, MetadataGoods, 1)))
                : k \in Range(MetadataKeys)}
          ELSE {})
    \cup (IF HasContainers
          THEN {WithContainers(<<ContainerAt(j)>>) : j \in DOMAIN ContainersNode.Content}
               \cup {WithContainers(<<Alone(ContainerAt(j), k, ContainerKeys, ContainerGoods, 1)>>)
                     : j \in {i \in DOMAIN ContainersNode.Content : ContainerAt(i).Kind = MappingNode},
                       k \in Range(ContainerKeys)}
               \cup UNION {
                     {WithContainers(<<SetField(ContainerAt(j), "ports",
                          SetContent(lastValue(ContainerAt(j).Content, "ports"),
                                     <<lastValue(ContainerAt(j).Content, "ports").Content[m]>>))>>)
                      : m \in DOMAIN lastValue(ContainerAt(j).Content, "ports").Content}
                     : j \in {i \in DOMAIN ContainersNode.Content :
                                /\ ContainerAt(i).Kind = MappingNode
                                /\ IsSequenceField(ContainerAt(i), "ports")}}
          ELSE {})

----------------------------------------------------------------------------
(* C3: errors accumulate.  For a manifest with a mapping root, whatever a   *)
(* field, a container or a port is reported for on its own (its siblings    *)
(* valid or absent) is also reported by the run on the whole manifest: no   *)
(* error recorded for one of them keeps the others from being checked.      *)
C3_ErrorsAccumulate ==
    (Finished /\ MappingRoot)
        => \A r \in Isolations : Range(RunOf(r)) \subseteq Range(Diag)

\* two things, each invalid on its own, with different diagnostics: the run
\* has ended and lists both
C3_TwoFaults ==
    /\ pc = "exited" /\ HasContainers
    /\ \E r1, r2 \in Isolations :
          /\ RunOf(r1) # <<>> /\ RunOf(r2) # <<>>
          /\ Range(RunOf(r1)) \cap Range(RunOf(r2)) = {}
          /\ Range(RunOf(r1)) \cup Range(RunOf(r2)) \subseteq Range(Diag)

----------------------------------------------------------------------------
\* container j is a mapping whose name is the scalar v
NamedAt(j, v) ==
    /\ ContainerAt(j).Kind = MappingNode
    /\ hasKey(ContainerAt(j).Content, "name")
    /\ lastValue(ContainerAt(j).Content, "name").Kind = ScalarNode
    /\ lastValue(ContainerAt(j).Content, "name").Value = v
NameNode(j) == lastValue(ContainerAt(j).Content, "name")
\* the containers whose name is a non-empty, well-formed identifier
WellNamed ==
    {j \in DOMAIN ContainersNode.Content :
        /\ ContainerAt(j).Kind = MappingNode
        /\ hasKey(ContainerAt(j).Content, "name")
        /\ NameNode(j).Kind = ScalarNode
        /\ NameNode(j).Value # ""
        /\ snakeCaseRegex(NameNode(j).Value)}

\* the uniqueness rule, the wording of the diagnostic left open
UniqueRule(wording(_)) ==
    (Finished /\ HasContainers)
        => \A j \in WellNamed :
              (AtLine(NameNode(j).Line, wording(NameNode(j).Value)) \in Range(Diag))
                  <=> (\E i \in 1..(j - 1) : NamedAt(i, NameNode(j).Value))
NotUnique(v) == "container name '" \o v \o "' is not unique"
Duplicated(v) == "containers.name must be unique, '" \o v \o "' is duplicated"

(* C4: within one containers sequence, a container whose name is a         *)
(* non-empty well-formed identifier gets `container name '<v>' is not       *)
(* unique`, at the line of its name value, exactly when an earlier          *)
(* container of the sequence has the same name.                             *)
C4_NotUniqueIffEarlier == UniqueRule(NotUnique)

\* three containers of one well-formed name have been validated
C4_Case ==
    /\ pc = "exited" /\ HasContainers
    /\ \E j \in WellNamed : Cardinality({i \in WellNamed : NamedAt(i, NameNode(j).Value)}) = 3

\* the rule holds of the two Validators as claimed, and of validatePod with
\* its own wording of the diagnostic
C4_ValidatorVariants == impl \in {"T", "D"} => UniqueRule(NotUnique)
C4_PodVariant == impl = "P" => UniqueRule(Duplicated)

----------------------------------------------------------------------------
(* C5: validating the same manifest twice in one process, in any order     *)
(* with runs on other manifests, gives the same error list in the same      *)
(* order: nothing of one run is visible to the next.                        *)
C5_SameManifestSameErrors ==
    \A i, j \in DOMAIN runs :
        runs[i].root = runs[j].root => runs[i].errs = runs[j].errs

\* one manifest with a diagnostic has been validated twice
C5_Case ==
    /\ Len(runs) = 2 /\ runs[1].root = runs[2].root /\ runs[1].errs # <<>>

\* the Validators start every run with a collector and a name set of their own
C5_ValidatorVariants == impl \in {"T", "D"} => C5_SameManifestSameErrors

----------------------------------------------------------------------------
(* The schema positions a run reaches *)

Containers == IF HasContainers THEN Range(ContainersNode.Content) ELSE {}
ContainerMaps == {c \in Containers : c.Kind = MappingNode}
FieldOf(m, key) == IF hasKey(m.Content, key) THEN {lastValue(m.Content, key)} ELSE {}
\* the values of `key` in the mappings among ms
FieldsOf(ms, key) == UNION {FieldOf(m, key) : m \in {n \in ms : n.Kind = MappingNode}}
ElementsOf(ns) == UNION {Range(n.Content) : n \in {q \in ns : q.Kind = SequenceNode}}
Maps(ns) == {n \in ns : n.Kind = MappingNode}

MetadataNodes == FieldOf(Doc, "metadata")
SpecNodes == FieldOf(Doc, "spec")
ResourcesNodes == FieldsOf(ContainerMaps, "resources")
ResourceSetNodes == FieldsOf(ResourcesNodes, "requests") \cup FieldsOf(ResourcesNodes, "limits")
PortsNodes == FieldsOf(ContainerMaps, "ports")
PortNodes == ElementsOf(PortsNodes)
ProbeNodes == FieldsOf(ContainerMaps, "readinessProbe") \cup FieldsOf(ContainerMaps, "livenessProbe")
HttpGetNodes == FieldsOf(ProbeNodes, "httpGet")

\* the number of reached mappings among ms that lack the key
Lacking(ms, key) == Cardinality({m \in Maps(ms) : ~hasKey(m.Content, key)})

\* d is a diagnostic without line that says the field is required
RequiredNoLine(d, field) ==
    /\ HasPrefix(d, FileName \o " ")
    /\ \/ HasSuffix(d, " " \o field \o " is required")
       \/ HasSuffix(d, "." \o field \o " is required")
Reported(field) == Cardinality({i \in DOMAIN Diag : RequiredNoLine(Diag[i], field)})

(* C6: at every schema level (document, metadata, spec, container, port,    *)
(* probe, httpGet) every required field that is absent from its mapping is  *)
(* reported by a "<field> is required" diagnostic without line.             *)
C6_RequiredWithoutLine ==
    (Finished /\ MappingRoot) =>
        /\ \A k \in Range(TopKeys) : Reported(k) >= Lacking({Doc}, k)
        /\ Reported("name") >= Lacking(MetadataNodes, "name") + Lacking(ContainerMaps, "name")
        /\ Reported("containers") >= Lacking(SpecNodes, "containers")
        /\ Reported("image") >= Lacking(ContainerMaps, "image")
        /\ Reported("resources") >= Lacking(ContainerMaps, "resources")
        /\ Reported("containerPort") >= Lacking(PortNodes, "containerPort")
        /\ Reported("httpGet") >= Lacking(ProbeNodes, "httpGet")
        /\ Reported("path") >= Lacking(HttpGetNodes, "path")
        /\ Reported("port") >= Lacking(HttpGetNodes, "port")

\* a container without image and a probe without httpGet have been validated
C6_Case ==
    /\ pc = "exited" /\ MappingRoot
    /\ Lacking(ContainerMaps, "image") > 0 /\ Lacking(ProbeNodes, "httpGet") > 0

\* the map-lookup Validator reports every absent required field without line
C6_TopLevelVariant == impl = "T" => C6_RequiredWithoutLine

----------------------------------------------------------------------------
\* the nodes found where the schema wants a mapping, and where a sequence
WantMapping ==
    MetadataNodes \cup FieldsOf(MetadataNodes, "labels") \cup SpecNodes \cup Containers
    \cup ResourcesNodes \cup ResourceSetNodes \cup PortNodes \cup ProbeNodes \cup HttpGetNodes
WantSequence == FieldsOf(SpecNodes, "containers") \cup PortsNodes
WrongKind ==
    {n \in WantMapping : n.Kind # MappingNode} \cup {n \in WantSequence : n.Kind # SequenceNode}

RECURSIVE LinesOf(_)
LinesOf(n) == {n.Line} \cup UNION {LinesOf(n.Content[i]) : i \in DOMAIN n.Content}
\* the diagnostics that carry line l
DiagsAt(l) == {i \in DOMAIN Diag : HasPrefix(Diag[i], FileName \o ":" \o ToString(l) \o " ")}
IsTypeDiag(d) == \E i \in 1..Len(d) : HasPrefix(SubSeq(d, i, Len(d)), " must be ")

(* C7: a field below the root of the wrong node kind gets exactly one type  *)
(* diagnostic ("... must be ..."), at its own line, and nothing inside it   *)
(* is reported.                                                             *)
C7_OneTypeDiagnostic ==
    (Finished /\ MappingRoot) =>
        \A n \in WrongKind :
            /\ Cardinality(UNION {DiagsAt(l) : l \in LinesOf(n)}) = 1
            /\ \E i \in DiagsAt(n.Line) : IsTypeDiag(Diag[i])

\* a node of the wrong kind with content of its own has been passed over
C7_Case ==
    /\ pc = "exited" /\ MappingRoot
    /\ \E n \in WrongKind : n.Content # <<>>

\* both Validators report the node and leave its content alone
C7_ValidatorVariants == impl \in {"T", "D"} => C7_OneTypeDiagnostic

----------------------------------------------------------------------------
(* C8: for a tree the parser returned without error the exit status is 0   *)
(* exactly when no error was accumulated and 1 when one or more were; there *)
(* is no other outcome.                                                     *)
C8_ExitStatus ==
    pc = "exited" => exit = (IF Len(errors) = 0 THEN 0 ELSE 1)

C8_Case == pc = "exited" /\ Len(errors) > 0

\* every run that reaches the end of main has the claimed exit status
C8_WithDocument == (pc = "exited" /\ Len(root.Content) > 0) => C8_ExitStatus

----------------------------------------------------------------------------
(* The manifests that satisfy every rule of the schema *)

Scalars(ns) == {n \in ns : n.Kind = ScalarNode}
\* the field is present, a scalar, and its text satisfies the rule
Holds(m, key, rule(_)) == \E n \in Scalars(FieldOf(m, key)) : rule(n.Value)
\* the field is absent or satisfies the node rule
Optional(m, key, rule(_)) == \A n \in FieldOf(m, key) : rule(n)

IsV1(v) == v = "v1"
IsPod(v) == v = "Pod"
NonEmpty(v) == v # ""
InPortRange(v) == ~Atoi(v).err /\ Atoi(v).val >= 1 /\ Atoi(v).val <= 65535
IsInteger(v) == ~Atoi(v).err
IsAbsolute(v) == HasPrefix(v, "/")

IsScalar(n) == n.Kind = ScalarNode
ValidOS(n) == IsScalar(n) /\ n.Value \in {"linux", "windows"}
ValidProtocol(n) == IsScalar(n) /\ n.Value \in {"TCP", "UDP"}
ValidLabels(n) == n.Kind = MappingNode /\ \A i \in DOMAIN n.Content : IsScalar(n.Content[i])
ValidResourceSet(n) ==
    /\ n.Kind = MappingNode
    /\ \A j \in 1..(Len(n.Content) \div 2) : n.Content[2 * j - 1].Value \in {"cpu", "memory"}
    /\ Optional(n, "cpu", LAMBDA c : IsScalar(c) /\ IsInteger(c.Value))
    /\ Optional(n, "memory", LAMBDA c : IsScalar(c) /\ memoryRegex(c.Value))
ValidResources(n) ==
    /\ n.Kind = MappingNode
    /\ Optional(n, "requests", ValidResourceSet)
    /\ Optional(n, "limits", ValidResourceSet)
ValidPort(n) ==
    /\ n.Kind = MappingNode
    /\ Holds(n, "containerPort", InPortRange)
    /\ Optional(n, "protocol", ValidProtocol)
ValidPorts(n) == n.Kind = SequenceNode /\ \A i \in DOMAIN n.Content : ValidPort(n.Content[i])
ValidHTTPGet(n) ==
    n.Kind = MappingNode /\ Holds(n, "path", IsAbsolute) /\ Holds(n, "port", InPortRange)
ValidProbe(n) == n.Kind = MappingNode /\ \E h \in FieldOf(n, "httpGet") : ValidHTTPGet(h)
ValidContainer(c) ==
    /\ c.Kind = MappingNode
    /\ Holds(c, "name", snakeCaseRegex)
    /\ Holds(c, "image", imageRegex)
    /\ \E r \in FieldOf(c, "resources") : ValidResources(r)
    /\ Optional(c, "ports", ValidPorts)
    /\ Optional(c, "readinessProbe", ValidProbe)
    /\ Optional(c, "livenessProbe", ValidProbe)
ValidMetadata(m) ==
    /\ m.Kind = MappingNode
    /\ Holds(m, "name", NonEmpty)
    /\ Optional(m, "namespace", IsScalar)
    /\ Optional(m, "labels", ValidLabels)

ValidManifest ==
    /\ MappingRoot
    /\ Holds(Doc, "apiVersion", IsV1)
    /\ Holds(Doc, "kind", IsPod)
    /\ \E m \in MetadataNodes : ValidMetadata(m)
    /\ HasContainers
    /\ Optional(SpecNode, "os", ValidOS)
    /\ \A j \in DOMAIN ContainersNode.Content : ValidContainer(ContainerAt(j))
    /\ \A i, j \in DOMAIN ContainersNode.Content :
          i # j => lastValue(ContainerAt(i).Content, "name").Value
                     # lastValue(ContainerAt(j).Content, "name").Value

(* C9: a manifest with apiVersion "v1", kind "Pod", a valid metadata.name  *)
(* and a containers list whose containers satisfy every container rule     *)
(* yields an empty error list and exit status 0.                           *)
C9_ValidManifestAccepted ==
    (Finished /\ ValidManifest) => errors = <<>> /\ (pc = "exited" => exit = 0)

\* a valid manifest with ports, probes and two containers has been validated
C9_Case ==
    /\ pc = "exited" /\ ValidManifest
    /\ \/ PortsNodes # {} /\ ProbeNodes # {}
       \/ Len(ContainersNode.Content) = 2

----------------------------------------------------------------------------
(* The diagnostics of one container, told apart by line and by wording *)

InlineKeys == {"ports", "readinessProbe", "livenessProbe"}
OwnKeys == <<"name", "image", "resources">>
\* the positions in Diag of the diagnostics that carry a line of ls
At(ls) == UNION {DiagsAt(l) : l \in ls}
\* the positions of the diagnostics without line that say one of fs is required
RequiredOf(fs) ==
    {i \in DOMAIN Diag : \E f \in fs :
        HasPrefix(Diag[i], FileName \o " ") /\ HasSuffix(Diag[i], " " \o f \o " is required")}
\* the pairs of the container mapping whose key is validated as encountered
InlinePairs(c) == {j \in 1..(Len(c.Content) \div 2) : c.Content[2 * j - 1].Value \in InlineKeys}
InlineDiags(c) ==
    At(UNION {LinesOf(c.Content[2 * j]) : j \in InlinePairs(c)})
    \cup RequiredOf({"containerPort", "httpGet", "path", "port"})
OwnDiags(c, f) == At(UNION {LinesOf(n) : n \in FieldOf(c, f)}) \cup RequiredOf({f})
Before(A, B) == \A i \in A, j \in B : i < j
OneContainer ==
    HasContainers /\ Len(ContainersNode.Content) = 1 /\ ContainerAt(1).Kind = MappingNode

(* C10: within one container the diagnostics of ports, readinessProbe and  *)
(* livenessProbe come in the order of those keys in the mapping, and those *)
(* of name, image and resources come after all of them, in that fixed      *)
(* order, wherever the three keys stand in the mapping.                    *)
C10_ContainerOrder ==
    (Finished /\ OneContainer) =>
        LET c == ContainerAt(1)
        IN  /\ \A j1, j2 \in InlinePairs(c) :
                  j1 < j2 => Before(At(LinesOf(c.Content[2 * j1])), At(LinesOf(c.Content[2 * j2])))
            /\ \A k \in DOMAIN OwnKeys : Before(InlineDiags(c), OwnDiags(c, OwnKeys[k]))
            /\ \A k1, k2 \in DOMAIN OwnKeys :
                  k1 < k2 => Before(OwnDiags(c, OwnKeys[k1]), OwnDiags(c, OwnKeys[k2]))

\* a container whose resources stand before its ports, both at fault, with
\* two faulty probes, has been validated
C10_Case ==
    /\ pc = "exited" /\ OneContainer
    /\ LET c == ContainerAt(1)
       IN  /\ hasKey(c.Content, "resources") /\ hasKey(c.Content, "ports")
           /\ lastIndex(c.Content, "resources") < lastIndex(c.Content, "ports")
           /\ OwnDiags(c, "resources") # {}
           /\ \A j \in InlinePairs(c) : At(LinesOf(c.Content[2 * j])) # {}
           /\ Cardinality(InlinePairs(c)) = 3

\* the encounter-order Validator keeps the order
C10_EncounterVariant == impl = "D" => C10_ContainerOrder

----------------------------------------------------------------------------
IsPrefix(s, t) == Len(s) <= Len(t) /\ SubSeq(t, 1, Len(s)) = s

(* C11: the error list is append-only during a run (the list before a step *)
(* is a prefix of the list after it), and when the diagnostics are written *)
(* out they are the recorded errors, one line each, in accumulation order. *)
C11_AppendOnlyInOrder ==
    [][/\ IsPrefix(errors, errors')
       /\ stderr' # stderr => stderr' = Rendered(errors')]_vars

\* diagnostics have been written out with a higher line before a lower one
C11_Case ==
    /\ pc = "exited" /\ stderr = Diag
    /\ \E l1, l2 \in LinesOf(root) :
          l1 > l2 /\ \E i \in DiagsAt(l1), j \in DiagsAt(l2) : i < j

----------------------------------------------------------------------------
\* the scalars among the values of `key` in the reached mappings ms whose text
\* parses as an integer
IntegerFields(ms, key) == {n \in Scalars(FieldsOf(ms, key)) : ~Atoi(n.Value).err}
OutOfRange(n) == Atoi(n.Value).val < 1 \/ Atoi(n.Value).val > 65535
\* the positions of the diagnostics with lines of ls that end in `wording`
Saying(ls, wording) == {i \in At(ls) : HasSuffix(Diag[i], wording)}
\* the port entries that hold the node as their containerPort
EntriesOf(n) == {e \in Maps(PortNodes) : n \in FieldOf(e, "containerPort")}

(* C12: a containerPort or probe port scalar that parses as an integer n   *)
(* gets the "value out of range" diagnostic exactly when n < 1 or          *)
(* n > 65535 (1 and 65535 pass, 0 and 65536 do not), and nothing else in   *)
(* its port entry, an invalid protocol included, gets one.                 *)
C12_PortRange ==
    (Finished /\ MappingRoot) =>
        /\ \A n \in IntegerFields(PortNodes, "containerPort") :
              /\ Cardinality(Saying({n.Line}, "containerPort value out of range"))
                    = (IF OutOfRange(n) THEN 1 ELSE 0)
              /\ \A e \in EntriesOf(n) :
                    Saying(LinesOf(e), "value out of range") \subseteq At({n.Line})
        /\ \A n \in IntegerFields(HttpGetNodes, "port") :
              Cardinality(Saying({n.Line}, "port value out of range"))
                  = (IF OutOfRange(n) THEN 1 ELSE 0)

\* a port at an endpoint of the range beside an invalid protocol, or a probe
\* port just past the range, has been validated
C12_Case ==
    /\ pc = "exited" /\ MappingRoot
    /\ \/ \E n \in IntegerFields(PortNodes, "containerPort") :
             /\ Atoi(n.Value).val \in {1, 65535}
             /\ \E e \in EntriesOf(n) : \E q \in FieldOf(e, "protocol") : q.Value = "SCTP"
       \/ \E n \in IntegerFields(HttpGetNodes, "port") : Atoi(n.Value).val \in {0, 65536}

----------------------------------------------------------------------------
(* Removing the keys outside the recognized set of each mapping *)

Pairs(n) == 1..(Len(n.Content) \div 2)
\* mapping n without the pairs whose key is not in keys
Keep(n, keys) ==
    IF n.Kind # MappingNode THEN n
    ELSE SetContent(n, Flatten([j \in Pairs(n) |->
            IF n.Content[2 * j - 1].Value \in keys
            THEN <<n.Content[2 * j - 1], n.Content[2 * j]>> ELSE <<>>]))
\* mapping n with f applied to the values of `key`
MapField(n, key, f(_)) ==
    IF n.Kind # MappingNode THEN n
    ELSE SetContent(n, [i \in DOMAIN n.Content |->
            IF i % 2 = 0 /\ n.Content[i - 1].Value = key THEN f(n.Content[i])
            ELSE n.Content[i]])
\* sequence n with f applied to its elements
MapItems(n, f(_)) ==
    IF n.Kind # SequenceNode THEN n
    ELSE SetContent(n, [i \in DOMAIN n.Content |-> f(n.Content[i])])

StripHTTPGet(n) == Keep(n, {"path", "port"})
StripProbe(n) == MapField(Keep(n, {"httpGet"}), "httpGet", StripHTTPGet)
StripPort(n) == Keep(n, {"containerPort", "protocol"})
StripPorts(n) == MapItems(n, StripPort)
StripResources(n) == Keep(n, {"requests", "limits"})
StripContainer(n) ==
    MapField(MapField(MapField(MapField(Keep(n, Range(ContainerKeys)),
        "resources", StripResources), "ports", StripPorts),
        "readinessProbe", StripProbe), "livenessProbe", StripProbe)
StripContainers(n) == MapItems(n, StripContainer)
StripSpec(n) == MapField(Keep(n, {"os", "containers"}), "containers", StripContainers)
StripMetadata(n) == Keep(n, Range(MetadataKeys))
\* the document with only recognized keys left, resource sets untouched
StripDoc(n) ==
    MapField(MapField(Keep(n, Range(TopKeys)), "metadata", StripMetadata), "spec", StripSpec)

\* the pairs of a resource set whose key is neither cpu nor memory
UnsupportedPairs(n) == {j \in Pairs(n) : n.Content[2 * j - 1].Value \notin {"cpu", "memory"}}
UnsupportedReported ==
    \A n \in Maps(ResourceSetNodes) : \A j \in UnsupportedPairs(n) :
        Saying({n.Content[2 * j - 1].Line}, " has unsupported resource type") # {}
UnrecognizedIgnored == RunOf(WithDoc(StripDoc(Doc))) = Diag

(* C13: a key outside the recognized set is reported exactly when it stands *)
(* in a resource-requirement set (requests, limits), as "unsupported        *)
(* resource type"; in every other mapping (document, metadata, spec,        *)
(* container, resources, port, probe, httpGet) such keys leave the error    *)
(* list as it is without them.                                              *)
C13_UnrecognizedKeys ==
    (Finished /\ MappingRoot) => UnsupportedReported /\ UnrecognizedIgnored

\* a manifest with unrecognized keys at several levels, or in a resource
\* set, has been validated
C13_Case ==
    /\ pc = "exited" /\ MappingRoot
    /\ \/ StripDoc(Doc) # Doc /\ Diag # <<>>
       \/ \E n \in Maps(ResourceSetNodes) : UnsupportedPairs(n) # {}

\* the Validator of main.go reports unsupported resource types
C13_TopLevelVariant == impl = "T" => C13_UnrecognizedKeys
\* no variant reports an unrecognized key outside a resource set
C13_OthersIgnored == (Finished /\ MappingRoot) => UnrecognizedIgnored

----------------------------------------------------------------------------
\* the tree with, in every mapping, only the last pair of each key
RECURSIVE Dedup(_)
Dedup(n) ==
    IF n.Kind = MappingNode
    THEN SetContent(n, Flatten([j \in Pairs(n) |->
            IF j = lastIndex(n.Content, n.Content[2 * j - 1].Value)
            THEN <<n.Content[2 * j - 1], Dedup(n.Content[2 * j])>> ELSE <<>>]))
    ELSE SetContent(n, [i \in DOMAIN n.Content |-> Dedup(n.Content[i])])
HasRepeats(n) == Dedup(n) # n

\* both Validators accept every valid manifest in which no key repeats
C9_ValidatorVariants ==
    (impl \in {"T", "D"} /\ (MappingRoot => ~HasRepeats(Doc))) => C9_ValidManifestAccepted

(* C14: when a key repeats within one mapping the last value wins: the run *)
(* records what it records for the manifest with only the last pair of     *)
(* each key, so the earlier values contribute no diagnostic and the        *)
(* repetition is not diagnosed, at every schema level.                     *)
C14_LastValueWins ==
    (Finished /\ MappingRoot) => RunOf(WithDoc(Dedup(Doc))) = Diag

\* a manifest with a repeated key whose earlier value is at fault has been
\* validated
C14_Case ==
    /\ pc = "exited" /\ MappingRoot /\ HasRepeats(Doc)
    /\ HasContainers /\ \E c \in ContainerMaps : HasRepeats(c)

\* validatePod looks every field up through parseMapping: the last value wins
C14_PodVariant == impl = "P" => C14_LastValueWins

----------------------------------------------------------------------------
\* the values of cpu in the reached resource sets
CPUNodes == FieldsOf(ResourceSetNodes, "cpu")
\* the cpu rule on the cpu values ns
CPURule(ns) ==
    \A n \in ns :
        IF n.Kind = ScalarNode /\ ~Atoi(n.Value).err
        THEN At(LinesOf(n)) = {}
        ELSE /\ Cardinality(At(LinesOf(n))) = 1
             /\ \A i \in At(LinesOf(n)) : Diag[i] = AtLine(n.Line, "cpu must be int")

(* C15: a cpu scalar under requests or limits that parses as an integer is *)
(* accepted whatever its value (0 and negative numbers included), and any  *)
(* other cpu value gets exactly one diagnostic, `cpu must be int`.         *)
C15_CPUInteger ==
    (Finished /\ MappingRoot) => CPURule(CPUNodes)

\* a cpu of 0 or below, and one that is no integer, have been validated
C15_Case ==
    /\ pc = "exited" /\ MappingRoot
    /\ \E n \in Scalars(CPUNodes) : Atoi(n.Value).err \/ Atoi(n.Value).val <= 0

\* the Validator of part_000 keeps the rule for every scalar cpu
C15_EncounterScalars == (impl = "D" /\ Finished /\ MappingRoot) => CPURule(Scalars(CPUNodes))

----------------------------------------------------------------------------
(* The runs under fairness: the program is sequential and nothing suspends *)
(* it, so a step that can be taken is taken.                               *)
SpecLive == Spec /\ WF_vars(Next)

\* the diagnostics have been written out and main has produced its status
EndedNormally == pc = "exited" /\ exit \in {0, 1} /\ stderr = Diag

(* C16: every run on a tree the parser returned (an empty document and a   *)
(* non-mapping root included) goes on to write out its diagnostics and to  *)
(* produce an exit status; recording an error never aborts it.             *)
C16_Terminates == <>EndedNormally

\* the run on a document without content has come to its end
C16_Case == pc = "exited" /\ Len(root.Content) = 0

\* every step moves the run on (pc or idx advances) and only pc = "exited"
\* has no step: a run that ends there has ended normally, but for part_000
\* on a document without content
C16_WithDocument ==
    pc = "exited" => (EndedNormally \/ (impl = "D" /\ Len(root.Content) = 0))

----------------------------------------------------------------------------
ProbeKeys == {"readinessProbe", "livenessProbe"}
ProbePairs(c) == {j \in Pairs(c) : c.Content[2 * j - 1].Value \in ProbeKeys}
\* the container with its probe keys exchanged, every node left at its line
SwapProbes(c) ==
    IF c.Kind # MappingNode THEN c
    ELSE SetContent(c, [i \in DOMAIN c.Content |->
            IF i % 2 = 1 /\ c.Content[i].Value \in ProbeKeys
            THEN [c.Content[i] EXCEPT !.Value = CHOOSE k \in ProbeKeys : k # @]
            ELSE c.Content[i]])
\* no container has more than one probe
OneProbeEach ==
    HasContainers /\ \A c \in ContainerMaps : Cardinality(ProbePairs(c)) <= 1
\* the number of diagnostics that say the field is required, with or without line
Required(field) ==
    Cardinality({i \in DOMAIN Diag : \/ HasSuffix(Diag[i], " " \o field \o " is required")
                                     \/ HasSuffix(Diag[i], "." \o field \o " is required")})

(* C17: a probe subtree yields the same diagnostics (messages, lines,      *)
(* order) as the value of readinessProbe and as the value of               *)
(* livenessProbe, and in both positions a probe without httpGet and an     *)
(* httpGet without path or port get their "is required" diagnostic.        *)
C17_ProbeSymmetry ==
    (Finished /\ OneProbeEach) =>
        /\ RunOf(WithContainers([j \in DOMAIN ContainersNode.Content |->
                                    SwapProbes(ContainerAt(j))])) = Diag
        /\ Required("httpGet") >= Lacking(ProbeNodes, "httpGet")
        /\ Required("path") >= Lacking(HttpGetNodes, "path")
        /\ Required("port") >= Lacking(HttpGetNodes, "port")

\* a container with one probe, an httpGet without path and port in it, has
\* been validated
C17_Case ==
    /\ pc = "exited" /\ OneProbeEach /\ Diag # <<>>
    /\ Lacking(HttpGetNodes, "path") > 0 /\ Lacking(HttpGetNodes, "port") > 0

\* both Validators run one routine on either probe
C17_ValidatorVariants == impl \in {"T", "D"} => C17_ProbeSymmetry

----------------------------------------------------------------------------
\* what the other of the two Validators records for the manifest of the run
OtherValidator ==
    IF impl = "T" THEN D_validateDocument(Doc) ELSE T_validateTopLevel(root)
\* the manifest has what the two Validators treat differently: an absent
\* required top-level field or spec.containers, an apiVersion or kind that
\* is no scalar, an unsupported resource type, a cpu that is no integer
ToldApart ==
    \/ \E k \in Range(TopKeys) : ~hasKey(Doc.Content, k)
    \/ \E k \in {"apiVersion", "kind"} : \E n \in FieldOf(Doc, k) : n.Kind # ScalarNode
    \/ Lacking(SpecNodes, "containers") > 0
    \/ \E n \in Maps(ResourceSetNodes) : UnsupportedPairs(n) # {}
    \/ \E n \in CPUNodes : n.Kind # ScalarNode \/ Atoi(n.Value).err

(* C18: for every document without repeated keys the map-lookup Validator  *)
(* of main.go and the encounter-order Validator of part_000 record the     *)
(* same set of diagnostics (message and line), so one has an empty error   *)
(* list exactly when the other has.                                        *)
C18_ValidatorsEquivalent ==
    (Finished /\ impl \in {"T", "D"} /\ MappingRoot /\ ~HasRepeats(Doc)) =>
        /\ Range(OtherValidator) = Range(Diag)
        /\ OtherValidator = <<>> <=> Diag = <<>>

\* a manifest without repeated keys has been validated by one of the two
\* Validators, with errors
C18_Case ==
    /\ pc = "exited" /\ impl \in {"T", "D"} /\ MappingRoot /\ ~HasRepeats(Doc)
    /\ Diag # <<>> /\ HasContainers

\* the two Validators agree on the manifests that are not told apart
C18_AgreeOtherwise == C18_ValidatorsEquivalent \/ (MappingRoot /\ ToldApart)

----------------------------------------------------------------------------
\* the containers that are mappings with a name
WithName ==
    {j \in DOMAIN ContainersNode.Content :
        ContainerAt(j).Kind = MappingNode /\ hasKey(ContainerAt(j).Content, "name")}
\* the one diagnostic validateContainerName owes container j, if any
NameDiagnostics(j) ==
    LET n == NameNode(j)
    IN  IF n.Kind # ScalarNode THEN {AtLine(n.Line, "container name must be string")}
        ELSE IF n.Value = "" THEN {AtLine(n.Line, "name is required")}
        ELSE IF ~snakeCaseRegex(n.Value)
        THEN {AtLine(n.Line, "container name has invalid format '" \o n.Value \o "'")}
        ELSE IF \E i \in 1..(j - 1) : NamedAt(i, n.Value)
        THEN {AtLine(n.Line, NotUnique(n.Value))}
        ELSE {}
\* the uniqueness set after the loop over the containers from j on
RECURSIVE NamesAfter(_, _, _)
NamesAfter(content, j, names) ==
    IF j > Len(content) THEN names
    ELSE IF content[j].Kind # MappingNode THEN NamesAfter(content, j + 1, names)
    ELSE NamesAfter(content, j + 1,
            IF impl = "T" THEN T_validateContainer(content[j], names).names
            ELSE D_validateContainer(content[j], names).names)

(* C19: in Validator.validateContainerName the checks on a name are        *)
(* exclusive and ordered (kind, empty, format, uniqueness): a name gets at *)
(* most one diagnostic, the first that applies; a name enters the          *)
(* uniqueness set only when it passed kind, empty and format, so the set   *)
(* holds well-formed identifiers only and containers sharing a malformed   *)
(* name get a format error each and no uniqueness error.                   *)
C19_NameChecksExclusive ==
    (Finished /\ impl \in {"T", "D"} /\ HasContainers) =>
        /\ \A j \in WithName :
              /\ Cardinality(At(LinesOf(NameNode(j)))) <= 1
              /\ {Diag[i] : i \in At(LinesOf(NameNode(j)))} = NameDiagnostics(j)
        /\ \A v \in NamesAfter(ContainersNode.Content, 1, {}) : v # "" /\ snakeCaseRegex(v)

\* two containers sharing a malformed name have been validated by a Validator
C19_Case ==
    /\ pc = "exited" /\ impl \in {"T", "D"} /\ HasContainers
    /\ \E i, j \in WithName :
          /\ i < j /\ NameNode(i).Kind = ScalarNode /\ NamedAt(j, NameNode(i).Value)
          /\ NameNode(i).Value # "" /\ ~snakeCaseRegex(NameNode(i).Value)

=============================================================================
